---- MODULE Spec2Model ----
(***************************************************************************)
(* Admission control, deduplication and settlement of audit requests in    *)
(* integrity.molt: QuotaManager (src/src/quota_manager.py), AuditCache     *)
(* (src/src/audit_cache.py) and SecurityAuditor.analyze_contract           *)
(* (src/src/security_auditor.py) with the collaborators it calls.          *)
(*                                                                         *)
(* Time is a clock of integer ticks; datetime.utcnow() reads the clock.    *)
(* Two reads in the same tick return equal values (and fall in the same    *)
(* clock second, so ids derived from int(timestamp) collide).  The window  *)
(* lengths of the code (60 minutes, 24 hours, 1 minute) are scaled to      *)
(* HourTicks, DayTicks and MinuteTicks ticks.  Amounts of SOL are kept in  *)
(* micro-SOL.  Each method of QuotaManager and AuditCache is one atomic    *)
(* step; analyze_contract is a sequence of such steps with no lock around  *)
(* them, and the process runs its producers in separate threads            *)
(* (src/src/__main__.py).                                                   *)
(***************************************************************************)
EXTENDS Integers, Sequences, FiniteSets, TLC

\* ------------------------------------------------------------------ bounds
NumUsers == 1
MaxInFlight == 2
MaxTime == 1
MaxTimeSeq == 1
MaxTimeDay == 6
MaxSettled == 5
MaxSettledMonth == 21
MaxSettledSeq == 1
MaxSettledConc == 1
MaxTimeMonth == 24
HourTicks == 2
DayTicks == 5
MinuteTicks == 1
MaxSize == 2

Users == 1..NumUsers
Anonymous == 0
Contracts == {"A", "B", "C"}
Slots == 1..MaxInFlight
MonthTicks == 30 * DayTicks

\* --------------------------------------------------------- program tables
Tiers == {"free", "subscriber", "premium"}

TIERS ==
  [free       |-> [audits_per_hour |-> 2,  audits_per_day |-> 5,
                   audits_per_month |-> 20,   monthly_budget_sol |-> 100000],
   subscriber |-> [audits_per_hour |-> 10, audits_per_day |-> 50,
                   audits_per_month |-> 999,  monthly_budget_sol |-> 10000000],
   premium    |-> [audits_per_hour |-> 20, audits_per_day |-> 100,
                   audits_per_month |-> 9999, monthly_budget_sol |-> 100000000]]

GLOBAL_LIMIT == [audits_per_minute |-> 100, audits_per_hour |-> 10000]

\* cost_estimate = 0.005 SOL and the fallback actual cost 0.009 SOL, in micro-SOL
CostEstimate == 5000
DefaultActualCost == 9000

VARIABLES
  now,                      \* the clock (datetime.utcnow)
  user_tiers,               \* QuotaManager.user_tiers (defaultdict: "free")
  audit_timestamps,         \* QuotaManager.audit_timestamps
  user_spending,            \* QuotaManager.user_spending[user][month_key]
  global_audit_timestamps,  \* QuotaManager.global_audit_timestamps
  audit_cache,              \* AuditCache.audit_cache (OrderedDict, as a sequence)
  user_index,               \* AuditCache.user_index
  contract_index,           \* AuditCache.contract_index
  req,                      \* the calls of analyze_contract in progress
  settled,                  \* history: the times record_audit ran, per identity
  noted,                    \* what a caller remembers of its last Completed call
  pending_payments,         \* PaymentProcessor.pending_payments
  payment_history,          \* PaymentProcessor.payment_history
  subscription_users,       \* PaymentProcessor.subscription_users
  quotes,                   \* history: the calls of calculate_audit_fee made
  returned,                 \* what the latest read of the cache gave its caller
  jobs,                     \* the AutonomousAuditJob objects created so far
  audit_queue,              \* AutonomousAuditor.audit_queue (dict, as a sequence)
  drain                     \* where start_autonomous_audit_loop stands

vars == <<now, user_tiers, audit_timestamps, user_spending,
          global_audit_timestamps, audit_cache, user_index, contract_index,
          req, settled, noted, pending_payments, payment_history,
          subscription_users, quotes, returned, jobs, audit_queue, drain>>

ledger == <<user_tiers, audit_timestamps, user_spending, global_audit_timestamps>>
cache == <<audit_cache, user_index, contract_index>>
payments == <<pending_payments, payment_history, subscription_users>>
auto == <<jobs, audit_queue, drain>>

\* ----------------------------------------------------------------- helpers
MonthKeys == 0..(MaxTimeMonth \div MonthTicks)

\* _get_month_key: the calendar month of the clock
MonthKey(t) == t \div MonthTicks

\* x in list
InSeq(seq, x) == \E i \in 1..Len(seq) : seq[i] = x

\* list.remove(x): drops the first occurrence; the caller checks membership
RemoveFirst(seq, x) ==
  IF ~InSeq(seq, x) THEN seq
  ELSE LET i == CHOOSE k \in 1..Len(seq) :
                  seq[k] = x /\ \A j \in 1..(k - 1) : seq[j] # x
       IN SubSeq(seq, 1, i - 1) \o SubSeq(seq, i + 1, Len(seq))

\* ------------------------------------------------------------ QuotaManager
\* faulty variant of _is_within_window: a window one tick too short
is_within_window_short(ts, window, t) == (t - ts) < window - 1

\* faulty variant of _is_within_window: an audit exactly one window old
\* still counts
is_within_window_inclusive(ts, window, t) == (t - ts) <= window

\* _is_within_window(timestamp, window): (utcnow() - timestamp) < window
is_within_window(ts, window, t) == (t - ts) < window

\* faulty variant: the purge of can_audit cutting at one hour
PurgeOlderThanHour(stamps, t) == SelectSeq(stamps, LAMBDA ts : ts > t - HourTicks)

\* can_audit, lines 118-123: drop the timestamps not newer than now - 24 hours
PurgeOld(stamps, t) == SelectSeq(stamps, LAMBDA ts : ts > t - DayTicks)

\* faulty variant: the hourly count forgets the audits of the current tick
audits_this_hour_lax(stamps, t) ==
  Len(SelectSeq(stamps, LAMBDA ts : ts < t /\ is_within_window(ts, HourTicks, t)))

audits_this_hour(stamps, t) ==
  Len(SelectSeq(stamps, LAMBDA ts : is_within_window(ts, HourTicks, t)))

audits_this_day(stamps, t) ==
  Len(SelectSeq(stamps, LAMBDA ts : is_within_window(ts, DayTicks, t)))

\* "audits_this_month = len(self.audit_timestamps[user_id])  # Already filtered"
audits_this_month(stamps) == Len(stamps)

\* faulty variant: the system-wide count looks at the current tick's future
global_last_minute_blind(t) ==
  Len(SelectSeq(global_audit_timestamps, LAMBDA ts : ts > t))

global_last_minute(t) ==
  Len(SelectSeq(global_audit_timestamps, LAMBDA ts : ts > t - MinuteTicks))

\* can_audit(user_id, cost_estimate_sol) at clock t: the decision, with the
\* purged timestamp list it leaves in audit_timestamps[user_id]
\* faulty variant: a denied attempt is counted like a settled audit
can_audit_counting(u, est, t) ==
  LET quota == TIERS[user_tiers[u]]
      kept  == PurgeOld(audit_timestamps[u], t)
      hour  == audits_this_hour(kept, t)
      day   == audits_this_day(kept, t)
      reason ==
        IF hour >= quota.audits_per_hour THEN "Hourly limit reached"
        ELSE IF day >= quota.audits_per_day THEN "Daily limit reached"
        ELSE "Quota OK"
  IN [allowed |-> reason = "Quota OK", reason |-> reason,
      kept |-> IF reason = "Quota OK" THEN kept ELSE Append(kept, t)]

can_audit(u, est, t) ==
  LET quota == TIERS[user_tiers[u]]
      kept  == PurgeOld(audit_timestamps[u], t)
      hour  == audits_this_hour(kept, t)
      day   == audits_this_day(kept, t)
      month == audits_this_month(kept)
      spent == user_spending[u][MonthKey(t)]
      reason ==
        IF hour >= quota.audits_per_hour THEN "Hourly limit reached"
        ELSE IF day >= quota.audits_per_day THEN "Daily limit reached"
        ELSE IF month >= quota.audits_per_month THEN "Monthly limit reached"
        ELSE IF spent + est > quota.monthly_budget_sol
          THEN "Monthly budget limit reached"
        ELSE IF global_last_minute(t) >= GLOBAL_LIMIT.audits_per_minute
          THEN "System rate limit reached"
        ELSE "Quota OK"
  IN [allowed |-> reason = "Quota OK", reason |-> reason, kept |-> kept]

\* faulty variant: an internal error lets the request through
can_audit_error_open(u, t, purged) ==
  [allowed |-> TRUE, reason |-> "Quota check error",
   kept |-> IF purged THEN PurgeOld(audit_timestamps[u], t)
            ELSE audit_timestamps[u]]

\* can_audit when evaluating the checks raises: the except of lines 228-234.
\* The exception comes before the purge of lines 118-123 or after it.
can_audit_error(u, t, purged) ==
  [allowed |-> FALSE, reason |-> "Quota check error",
   kept |-> IF purged THEN PurgeOld(audit_timestamps[u], t)
            ELSE audit_timestamps[u]]

\* record_audit(user_id, cost_sol): the next values of the three ledger fields
record_audit_timestamps(u, t) ==
  [audit_timestamps EXCEPT ![u] = Append(@, t)]

record_audit_spending(u, cost, t) ==
  [user_spending EXCEPT ![u][MonthKey(t)] = @ + cost]

record_audit_global(t) ==
  SelectSeq(Append(global_audit_timestamps, t), LAMBDA ts : ts > t - HourTicks)

\* get_user_quota_info(user_id)["tier"]
get_user_tier(u) == user_tiers[u]

\* get_user_quota_info(user_id) at time t: the tier, its limits and the usage
\* lines "used/limit" as pairs; the report purges nothing
get_user_quota_info(u, t) ==
  LET tier  == user_tiers[u]
      quota == TIERS[tier]
  IN [user_id |-> u,
      tier    |-> tier,
      usage   |-> [audits_this_hour  |-> <<audits_this_hour(audit_timestamps[u], t),
                                           quota.audits_per_hour>>,
                   audits_this_day   |-> <<audits_this_day(audit_timestamps[u], t),
                                           quota.audits_per_day>>,
                   audits_this_month |-> <<Len(audit_timestamps[u]),
                                           quota.audits_per_month>>,
                   spending_this_month_sol |->
                     <<user_spending[u][MonthKey(t)], quota.monthly_budget_sol>>],
      limits  |-> quota]

\* faulty variant: an identity without an entry is taken for a premium one
default_tier_premium == "premium"

\* user_tiers = defaultdict(lambda: "free"): the tier of an identity that
\* set_user_tier was never called for
default_tier == "free"

\* -------------------------------------------------------------- AuditCache
\* dict.get(key, default) on a record standing for a Python dict
DictGet(d, k, default) == IF k \in DOMAIN d THEN d[k] ELSE default

\* the {} that result.get("nft_anchor", {}) and its like fall back to
EmptyDict == [absent |-> TRUE]

CacheHas(store, id) == \E i \in 1..Len(store) : store[i].audit_id = id

CacheGet(store, id) ==
  store[CHOOSE i \in 1..Len(store) : store[i].audit_id = id]

\* self.audit_cache[audit_id] = record: a present key keeps its position
CachePut(store, rec) ==
  IF CacheHas(store, rec.audit_id)
    THEN [i \in 1..Len(store) |->
            IF store[i].audit_id = rec.audit_id THEN rec ELSE store[i]]
    ELSE Append(store, rec)

\* add_audit, lines 78-92: at capacity, pop the first-inserted entry and
\* remove its id from both indexes; list.remove raises ValueError on a
\* missing id, which add_audit's except turns into "return False"
EvictOldest(store, uidx, cidx) ==
  LET removed == Head(store)
      rid     == removed.audit_id
      ou      == removed.user_id
      oc      == removed.contract_address
      okUser  == InSeq(uidx[ou], rid)
      uidx1   == IF okUser THEN [uidx EXCEPT ![ou] = RemoveFirst(@, rid)] ELSE uidx
      okCon   == okUser /\ InSeq(cidx[oc], rid)
      cidx1   == IF okCon THEN [cidx EXCEPT ![oc] = RemoveFirst(@, rid)] ELSE cidx
  IN [audit_cache |-> Tail(store), user_index |-> uidx1,
      contract_index |-> cidx1, ok |-> okCon]

\* add_audit(audit_record): the cache after the call, and its return value
add_audit(rec) ==
  LET full == Len(audit_cache) >= MaxSize
      ev   == IF full THEN EvictOldest(audit_cache, user_index, contract_index)
              ELSE [audit_cache |-> audit_cache, user_index |-> user_index,
                    contract_index |-> contract_index, ok |-> TRUE]
  IN IF ~ev.ok THEN ev
     ELSE [audit_cache    |-> CachePut(ev.audit_cache, rec),
           user_index     |-> [ev.user_index EXCEPT ![rec.user_id] =
                                 Append(@, rec.audit_id)],
           contract_index |-> [ev.contract_index EXCEPT ![rec.contract_address] =
                                 Append(@, rec.audit_id)],
           ok             |-> TRUE]

\* is_recent_audit(user_id, contract_address, within_hours=24): the positions
\* in user_index[user_id] whose record is stored, newer than the cutoff and of
\* this contract; the code returns the one found first scanning newest-first
RecentHits(u, c, within, t) ==
  {i \in 1..Len(user_index[u]) :
     /\ CacheHas(audit_cache, user_index[u][i])
     /\ LET r == CacheGet(audit_cache, user_index[u][i])
        IN r.timestamp > t - within /\ r.contract_address = c}

NoRecord == [audit_id |-> <<0, 0>>, user_id |-> 0, contract_address |-> "None",
             timestamp |-> 0, risk_score |-> 0, r2_url |-> "None",
             nft_hash |-> "None"]

is_recent_audit(u, c, within, t) ==
  LET hits == RecentHits(u, c, within, t)
  IN IF hits = {} THEN NoRecord
     ELSE CacheGet(audit_cache,
                   user_index[u][CHOOSE i \in hits : \A j \in hits : j <= i])

\* ttl_hours = 72
TtlTicks == 3 * DayTicks

Reverse(seq) == [i \in 1..Len(seq) |-> seq[Len(seq) + 1 - i]]

FirstN(seq, n) == SubSeq(seq, 1, IF n < Len(seq) THEN n ELSE Len(seq))

\* get_user_history(user_id, limit, include_expired): the stored records of
\* the identity's index, newest first, without the expired ones, at most limit
get_user_history(u, limit, include_expired, t) ==
  LET ids  == SelectSeq(Reverse(user_index[u]),
                LAMBDA id : /\ CacheHas(audit_cache, id)
                            /\ include_expired
                                 \/ ~(t - CacheGet(audit_cache, id).timestamp > TtlTicks))
      kept == FirstN(ids, limit)
  IN [i \in 1..Len(kept) |-> CacheGet(audit_cache, kept[i])]

\* get_contract_history(contract_address, limit): the stored records of the
\* contract's index, newest first, at most limit
get_contract_history(c, limit) ==
  LET ids  == SelectSeq(Reverse(contract_index[c]),
                LAMBDA id : CacheHas(audit_cache, id))
      kept == FirstN(ids, limit)
  IN [i \in 1..Len(kept) |-> CacheGet(audit_cache, kept[i])]

\* audit_id = f"audit_{user_id}_{int(datetime.utcnow().timestamp())}"
make_audit_id(u, t) == <<u, t>>

\* cache_audit_result(audit_id, user_id, contract_address, audit_result):
\* the AuditRecord it builds (risk "5" when nft_anchor has no risk_score key)
build_audit_record(id, u, c, result, t) ==
  [audit_id         |-> id,
   user_id          |-> u,
   contract_address |-> c,
   timestamp        |-> t,
   risk_score       |-> DictGet(DictGet(result, "nft_anchor", EmptyDict),
                                "risk_score", 5),
   r2_url           |-> DictGet(DictGet(result, "r2_storage", EmptyDict),
                                "report_url", "None"),
   nft_hash         |-> DictGet(DictGet(result, "nft_anchor", EmptyDict),
                                "audit_hash", "None")]

\* --------------------------------------------------------------- analyzers
\* what the pattern scan of a contract's code finds: matches per severity
Profiles ==
  {[critical |-> 0, high |-> 0, medium |-> 0],
   [critical |-> 0, high |-> 1, medium |-> 1],
   [critical |-> 0, high |-> 2, medium |-> 1],
   [critical |-> 1, high |-> 0, medium |-> 0],
   [critical |-> 2, high |-> 2, medium |-> 0]}

Min(a, b) == IF a < b THEN a ELSE b
Max(a, b) == IF a > b THEN a ELSE b

\* FreeSecurityAnalyzer._calculate_risk_score: weights 3 / 2 / 1 per match,
\* clamped to 1..10, at least 6 when a critical pattern matched
free_risk_score(p) ==
  IF p.critical + p.high + p.medium = 0 THEN 1
  ELSE LET total == 3 * p.critical + 2 * p.high + p.medium
           score == Min(10, Max(1, total))
       IN IF p.critical > 0 THEN Max(score, 6) ELSE score

\* faulty variant: a local analyzer whose except branch can be reached
free_analyzer_may_fail == {"success", "error"}

\* FreeSecurityAnalyzer.analyze_contract: the statuses it can return.  Its
\* except branch is not reachable: _detect_patterns swallows every
\* per-pattern error and the two other helpers are total on its output.
free_analyzer_statuses == {"success"}

free_analyze(p, st) ==
  IF st = "success"
    THEN [status |-> "success", risk_score |-> free_risk_score(p),
          tokens_used |-> 0]
    ELSE [status |-> "error"]

\* MetaplexNFTAnchor._calculate_risk_score: int(1 + 3*critical + 1.5*high)
\* capped at 10, at least 1
nft_risk_score(p) ==
  Max(Min(1 + 3 * p.critical + ((3 * p.high) \div 2), 10), 1)

\* R2Storage.upload_audit_report: the dict it returns, by outcome
r2_outcomes == {"success", "skipped", "error"}

\* faulty variant: an upload reported as success that carries no URL
upload_without_url(o) == [status |-> o]

upload_audit_to_r2(o) ==
  IF o = "success" THEN [status |-> "success", report_url |-> "url"]
  ELSE [status |-> o]

\* MetaplexNFTAnchor.create_audit_nft: the dict it returns, by outcome; the
\* risk score sits in metadata.attributes, not at the top level
nft_outcomes == {"prepared", "offline", "error"}

create_audit_nft_anchor(o, p) ==
  IF o = "prepared"
    THEN [status |-> "prepared", audit_hash |-> "hash",
          metadata |-> [risk_score |-> nft_risk_score(p)]]
    ELSE [status |-> o]

\* faulty variant: a table in which bucket 6 is cheaper than bucket 5
risk_multiplier_dip(risk) ==
  CASE risk \in {1, 2} -> 10
    [] risk \in {3, 4} -> 11
    [] risk = 5  -> 12
    [] risk = 6  -> 11
    [] risk = 7  -> 18
    [] risk = 8  -> 20
    [] risk = 9  -> 25
    [] risk = 10 -> 30
    [] OTHER -> 10

\* PaymentProcessor.PRICING["risk_multiplier"], times 10; .get default 1.0
risk_multiplier10(risk) ==
  CASE risk \in {1, 2} -> 10
    [] risk \in {3, 4} -> 11
    [] risk = 5  -> 12
    [] risk = 6  -> 15
    [] risk = 7  -> 18
    [] risk = 8  -> 20
    [] risk = 9  -> 25
    [] risk = 10 -> 30
    [] OTHER -> 10

\* faulty variant: a subscriber gets a flat 0.01 SOL off the rounded total
fee_lamports_flat_discount(tokens, risk, is_subscriber) ==
  LET m == risk_multiplier10(risk)
      full == 5000000 * m + ((tokens * m) \div 10000000)
  IN IF is_subscriber THEN full - 10000000 ELSE full

\* calculate_audit_fee: int(((0.05 + tokens * 1e-6 / 1e9) * mult
\* [* 0.8 for a subscriber]) * 1e9) lamports
fee_lamports(tokens, risk, is_subscriber) ==
  LET m == risk_multiplier10(risk)
      d == IF is_subscriber THEN 8 ELSE 10
  IN 500000 * m * d + ((tokens * m * d) \div 100000000)

\* PRICING["base_fee_sol"] = 0.05 SOL, in lamports
base_fee_lamports == 50000000

\* faulty variant: a surcharge of one lamport per pending payment request
calculate_audit_fee_surge(tokens, risk, is_subscriber) ==
  [status |-> "calculated",
   fee_lamports |-> fee_lamports(tokens, risk, is_subscriber)
                      + Cardinality(DOMAIN pending_payments),
   breakdown |-> [base_fee |-> base_fee_lamports, token_fee |-> tokens,
                  risk_multiplier |-> risk_multiplier10(risk),
                  discount |-> [lamports |-> 0, e8 |-> 0],
                  is_subscriber |-> is_subscriber],
   risk_score |-> risk, tokens_used |-> tokens]

\* calculate_audit_fee(tokens_used, risk_score, is_subscriber): the dict it
\* returns.  base_fee in lamports, token_fee in millionths of a lamport
\* (tokens * 0.000001 / 1e9 SOL), risk_multiplier times 10, discount (20% of
\* the subtotal) exact as lamports + e8 hundred-millionths of a lamport.
calculate_audit_fee(tokens, risk, is_subscriber) ==
  LET m == risk_multiplier10(risk) IN
  [status |-> "calculated",
   fee_lamports |-> fee_lamports(tokens, risk, is_subscriber),
   breakdown |-> [base_fee |-> base_fee_lamports, token_fee |-> tokens,
                  risk_multiplier |-> m,
                  discount |-> IF is_subscriber
                                 THEN [lamports |-> 1000000 * m,
                                       e8 |-> 2 * tokens * m]
                                 ELSE [lamports |-> 0, e8 |-> 0],
                  is_subscriber |-> is_subscriber],
   risk_score |-> risk, tokens_used |-> tokens]

\* create_payment_request: status "pending" with amount_sol (micro-SOL
\* here), or the error dict of its except branch, which has no amount
pay_outcomes == {"pending", "error"}

create_payment_request(o, tokens, risk, is_subscriber) ==
  IF o = "pending"
    THEN [status |-> "pending",
          amount_lamports |-> fee_lamports(tokens, risk, is_subscriber),
          amount_sol |-> fee_lamports(tokens, risk, is_subscriber) \div 1000]
    ELSE [status |-> "error"]

\* the 15 minutes a payment request stays valid
ExpiryTicks == 1

\* payment_id = f"payment_{user_id}_{int(datetime.utcnow().timestamp())}"
make_payment_id(u, t) == <<u, t>>

\* the dict create_payment_request builds and keeps (lines 149-168)
payment_request(pay, u, c, t) ==
  [payment_id |-> make_payment_id(u, t), status |-> pay.status, user_id |-> u,
   contract_address |-> c, timestamp |-> t, expiry |-> t + ExpiryTicks,
   amount_lamports |-> pay.amount_lamports, amount_sol |-> pay.amount_sol]

\* self.pending_payments[payment_id] = payment_request
store_payment(pending, request) ==
  (request.payment_id :> request) @@ pending

TokenCounts == {1234}

\* --------------------------------------------- SecurityAuditor.analyze_contract
Producers == {"interactive", "webhook", "drain", "direct"}

NoSnap == [taken |-> FALSE]

IdleReq ==
  [pc |-> "idle", producer |-> "none", user_id |-> 0, contract |-> "None",
   is_subscriber |-> FALSE, admitted |-> FALSE, quota_calls |-> 0,
   analyzer |-> "none", analyzer_calls |-> 0, analysis |-> "none",
   risk |-> 0, result |-> EmptyDict, cache_writes |-> 0, records |-> 0,
   status |-> "none", reason |-> "none", cached_record |-> NoRecord,
   snap |-> NoSnap]

\* the ledger and the cache as a caller sees them before its request
Snapshot ==
  [taken |-> TRUE, audit_timestamps |-> audit_timestamps,
   user_spending |-> user_spending,
   global_audit_timestamps |-> global_audit_timestamps,
   audit_cache |-> audit_cache, user_index |-> user_index,
   contract_index |-> contract_index]

\* The arguments each producer passes.  audit_command passes the Telegram
\* user id (positive) and is_subscriber=False; autonomous_audit_workflow and
\* process_audit_job pass user_id=0 and a keyword force_refresh that
\* analyze_contract does not take; other callers (tests, __main__) pass
\* anything.
producer_args(producer, u, sub) ==
  CASE producer = "interactive" -> u \in DOMAIN user_tiers /\ sub = FALSE
    [] producer \in {"webhook", "drain"} -> u = Anonymous /\ sub = FALSE
    [] OTHER -> u \in DOMAIN user_tiers \cup {Anonymous}

\* faulty variant: a signature that accepts the keyword force_refresh
call_always_binds(producer) == TRUE

\* Python binds the arguments before the body runs: an unexpected keyword
\* raises TypeError in the caller and no statement of analyze_contract runs
call_binds(producer) == producer \notin {"webhook", "drain"}

NewRequest(s, producer, u, c, sub, snap) ==
  /\ req[s].pc = "idle"
  /\ producer_args(producer, u, sub)
  /\ req' = [req EXCEPT ![s] =
       IF call_binds(producer)
         THEN [IdleReq EXCEPT !.pc = "admit", !.producer = producer,
                              !.user_id = u, !.contract = c,
                              !.is_subscriber = sub, !.snap = snap]
         ELSE [IdleReq EXCEPT !.pc = "done", !.producer = producer,
                              !.user_id = u, !.contract = c,
                              !.is_subscriber = sub, !.snap = snap,
                              !.status = "raised", !.reason = "TypeError"]]
  /\ UNCHANGED <<now, ledger, cache, settled, noted, payments, quotes, returned, auto>>

\* a producer calls analyze_contract while other calls may be in progress
Submit(s, producer, u, c, sub) ==
  /\ u \in Users => Len(settled[u]) <= MaxSettledConc
  /\ NewRequest(s, producer, u, c, sub, NoSnap)

\* faulty variant: the dedup lookup runs before the quota check, so a fresh
\* cache entry is returned without asking can_audit
StageQuotaCacheFirst(s) ==
  LET r   == req[s]
      hit == r.user_id > 0
             /\ is_recent_audit(r.user_id, r.contract, DayTicks, now) # NoRecord
      d   == can_audit(r.user_id, CostEstimate, now)
  IN
  /\ r.pc = "admit"
  /\ IF hit
       THEN /\ req' = [req EXCEPT ![s] =
                 [r EXCEPT !.pc = "done", !.status = "cached"]]
            /\ UNCHANGED audit_timestamps
       ELSE IF r.user_id > 0
         THEN /\ audit_timestamps' = [audit_timestamps EXCEPT ![r.user_id] = d.kept]
              /\ req' = [req EXCEPT ![s] =
                   IF d.allowed
                     THEN [r EXCEPT !.pc = "dedup", !.admitted = TRUE,
                                    !.quota_calls = @ + 1]
                     ELSE [r EXCEPT !.pc = "done", !.quota_calls = @ + 1,
                                    !.status = "quota_exceeded",
                                    !.reason = d.reason]]
         ELSE /\ req' = [req EXCEPT ![s].pc = "dedup"]
              /\ UNCHANGED audit_timestamps
  /\ UNCHANGED <<now, user_tiers, user_spending, global_audit_timestamps,
                 cache, settled, noted, payments, quotes, returned, auto>>

\* STAGE -1, lines 207-227: the quota check of an identified requester
StageQuota(s) ==
  LET r == req[s] IN
  /\ r.pc = "admit"
  /\ IF r.user_id > 0
       THEN LET d == can_audit(r.user_id, CostEstimate, now) IN
            /\ audit_timestamps' = [audit_timestamps EXCEPT ![r.user_id] = d.kept]
            /\ req' = [req EXCEPT ![s] =
                 IF d.allowed
                   THEN [r EXCEPT !.pc = "dedup", !.admitted = TRUE,
                                  !.quota_calls = @ + 1]
                   ELSE [r EXCEPT !.pc = "done", !.quota_calls = @ + 1,
                                  !.status = "quota_exceeded",
                                  !.reason = d.reason]]
       ELSE /\ req' = [req EXCEPT ![s].pc = "dedup"]
            /\ UNCHANGED audit_timestamps
  /\ UNCHANGED <<now, user_tiers, user_spending, global_audit_timestamps,
                 cache, settled, noted, payments, quotes, returned, auto>>

\* STAGE -1 when can_audit meets an internal error: lines 213-225 on the
\* dict its except branch returns
StageQuotaError(s) ==
  LET r == req[s] IN
  /\ r.pc = "admit"
  /\ r.user_id > 0
  /\ \E purged \in BOOLEAN :
       LET d == can_audit_error(r.user_id, now, purged) IN
       /\ audit_timestamps' = [audit_timestamps EXCEPT ![r.user_id] = d.kept]
       /\ req' = [req EXCEPT ![s] =
            IF d.allowed
              THEN [r EXCEPT !.pc = "dedup", !.admitted = TRUE,
                             !.quota_calls = @ + 1, !.reason = d.reason]
              ELSE [r EXCEPT !.pc = "done", !.quota_calls = @ + 1,
                             !.status = "quota_exceeded",
                             !.reason = d.reason]]
  /\ UNCHANGED <<now, user_tiers, user_spending, global_audit_timestamps,
                 cache, settled, noted, payments, quotes, returned, auto>>

\* STAGE 0, lines 229-254: the dedup lookup, within_hours=24
StageDedup(s) ==
  LET r   == req[s]
      hit == IF r.user_id > 0
               THEN is_recent_audit(r.user_id, r.contract, DayTicks, now)
               ELSE NoRecord
  IN
  /\ r.pc = "dedup"
  /\ req' = [req EXCEPT ![s] =
       IF hit # NoRecord
         THEN [r EXCEPT !.pc = "done", !.status = "cached",
                        !.cached_record = hit]
         ELSE [r EXCEPT !.pc = "analyze"]]
  /\ UNCHANGED <<now, ledger, cache, settled, noted, payments, quotes, returned, auto>>

\* STAGE 0.5, lines 266-273: the route taken on a cache miss
free_route(r) ==
  r.user_id > 0 /\ get_user_tier(r.user_id) = "free" /\ ~r.is_subscriber

\* lines 276-278: the local pattern analyzer
StageFreeAnalysis(s, profiles) ==
  LET r == req[s] IN
  /\ r.pc = "analyze"
  /\ free_route(r)
  /\ \E p \in profiles, st \in free_analyzer_statuses :
       req' = [req EXCEPT ![s] =
         [r EXCEPT !.pc = "cache", !.analyzer = "free",
                   !.analyzer_calls = @ + 1,
                   !.analysis = IF st = "success" THEN "ok" ELSE "failed",
                   !.risk = DictGet(free_analyze(p, st), "risk_score", 0),
                   !.result = free_analyze(p, st)]]
  /\ UNCHANGED <<now, ledger, cache, settled, noted, payments, quotes, returned, auto>>

\* faulty variant: a failed GPT-4 call is tried again
StageGPT4Retry(s) ==
  LET r == req[s] IN
  /\ r.pc = "analyze"
  /\ ~free_route(r)
  /\ r.analyzer_calls < 2
  /\ \E tok \in TokenCounts :
       \/ req' = [req EXCEPT ![s] =
            [r EXCEPT !.analyzer = "gpt4", !.analyzer_calls = @ + 1,
                      !.analysis = "failed"]]
       \/ req' = [req EXCEPT ![s] =
            [r EXCEPT !.pc = "side", !.analyzer = "gpt4",
                      !.analyzer_calls = @ + 1, !.analysis = "ok",
                      !.result = [status |-> "success", tokens_used |-> tok]]]
  /\ UNCHANGED <<now, ledger, cache, settled, noted, payments, quotes, returned, auto>>

\* STAGES 1-3, lines 290-356: the GPT-4 call; an exception of the client
\* reaches the except of lines 415-422
StageGPT4(s) ==
  LET r == req[s] IN
  /\ r.pc = "analyze"
  /\ ~free_route(r)
  /\ \/ req' = [req EXCEPT ![s] =
          [r EXCEPT !.pc = "done", !.analyzer = "gpt4",
                    !.analyzer_calls = @ + 1, !.analysis = "failed",
                    !.status = "error", !.reason = "API error"]]
     \/ \E tok \in TokenCounts :
          req' = [req EXCEPT ![s] =
            [r EXCEPT !.pc = "side", !.analyzer = "gpt4",
                      !.analyzer_calls = @ + 1, !.analysis = "ok",
                      !.result = [status |-> "success", tokens_used |-> tok]]]
  /\ UNCHANGED <<now, ledger, cache, settled, noted, payments, quotes, returned, auto>>

\* STAGES 4-6, lines 358-393: R2 upload, NFT anchor, payment request.  Each
\* collaborator catches its own errors and returns a dict.
StageSideEffects(s, r2s, nfts, pays, profiles) ==
  LET r == req[s] IN
  /\ r.pc = "side"
  /\ \E o2 \in r2s, on \in nfts, op \in pays, p \in profiles :
       LET r2   == upload_audit_to_r2(o2)
           nft  == create_audit_nft_anchor(on, p)
           risk == IF nft.status = "prepared"
                     THEN DictGet(nft, "risk_score", 5) ELSE 5
           pay  == create_payment_request(op, r.result.tokens_used, risk,
                                          r.is_subscriber)
           base == [status |-> "success",
                    tokens_used |-> r.result.tokens_used,
                    r2_storage |-> r2, nft_anchor |-> nft]
           full == [status |-> "success",
                    tokens_used |-> r.result.tokens_used,
                    r2_storage |-> r2, nft_anchor |-> nft, payment |-> pay]
       IN /\ req' = [req EXCEPT ![s] =
            IF r.user_id > 0
              THEN [r EXCEPT !.pc = "cache", !.result = full,
                             !.risk = IF on = "prepared"
                                        THEN nft.metadata.risk_score ELSE 0]
              ELSE [r EXCEPT !.pc = "done", !.result = base,
                             !.status = "success",
                             !.risk = IF on = "prepared"
                                        THEN nft.metadata.risk_score ELSE 0]]
          /\ pending_payments' =
               IF r.user_id > 0 /\ pay.status = "pending"
                 THEN store_payment(pending_payments,
                                    payment_request(pay, r.user_id, r.contract, now))
                 ELSE pending_payments
  /\ UNCHANGED <<now, ledger, cache, settled, noted, payment_history,
                 subscription_users, quotes, returned, auto>>

\* STAGE 7, lines 395-399 (free route: 281-283): cache_audit_result
StageCache(s) ==
  LET r   == req[s]
      rec == build_audit_record(make_audit_id(r.user_id, now), r.user_id,
                                r.contract, r.result, now)
      a   == add_audit(rec)
  IN
  /\ r.pc = "cache"
  /\ audit_cache' = a.audit_cache
  /\ user_index' = a.user_index
  /\ contract_index' = a.contract_index
  /\ req' = [req EXCEPT ![s] =
       [r EXCEPT !.pc = "record",
                 !.cache_writes = IF a.ok THEN @ + 1 ELSE @]]
  /\ UNCHANGED <<now, ledger, settled, noted, payments, quotes, returned, auto>>

\* line 403 (free route: line 286): the cost handed to record_audit
actual_cost(r) ==
  IF r.analyzer = "free" THEN 0
  ELSE DictGet(DictGet(r.result, "payment", EmptyDict), "amount_sol",
               DefaultActualCost)

\* STAGE 8, lines 401-413 (free route: 285-288): record_audit, then return
StageRecord(s) ==
  LET r == req[s] IN
  /\ r.pc = "record"
  /\ audit_timestamps' = record_audit_timestamps(r.user_id, now)
  /\ user_spending' = record_audit_spending(r.user_id, actual_cost(r), now)
  /\ global_audit_timestamps' = record_audit_global(now)
  /\ settled' = [settled EXCEPT ![r.user_id] = Append(@, now)]
  /\ req' = [req EXCEPT ![s] =
       [r EXCEPT !.pc = "done", !.records = @ + 1,
                 !.status = r.result.status]]
  /\ UNCHANGED <<now, user_tiers, cache, noted, payments, quotes, returned, auto>>

\* the caller takes the returned dict (or the exception)
Return(s) ==
  /\ req[s].pc = "done"
  /\ req' = [req EXCEPT ![s] = IdleReq]
  /\ UNCHANGED <<now, ledger, cache, settled, noted, payments, quotes, returned, auto>>

\* a caller that keeps the risk classification of its latest Completed
\* request, to compare it with what a resubmission returns
NoNote == [user_id |-> 0, contract |-> "None", risk |-> 0, analyzer |-> "none"]

ReturnNoted(s) ==
  /\ req[s].pc = "done"
  /\ req' = [req EXCEPT ![s] = IdleReq]
  /\ noted' = IF req[s].status = "success" /\ req[s].user_id > 0
                THEN [user_id |-> req[s].user_id, contract |-> req[s].contract,
                      risk |-> req[s].risk, analyzer |-> req[s].analyzer]
                ELSE noted
  /\ UNCHANGED <<now, ledger, cache, settled, payments, quotes, returned, auto>>

\* set_user_tier(user_id, tier): an unknown tier name is refused
TierNames == Tiers \cup {"gold"}

\* faulty variant: any name is stored as the identity's tier
set_user_tier_any(u, tier) == [user_tiers EXCEPT ![u] = tier]

set_user_tier(u, tier) ==
  IF tier \in Tiers THEN [user_tiers EXCEPT ![u] = tier] ELSE user_tiers

\* the value set_user_tier returns: False at line 76, True at line 80
set_user_tier_returns(tier) == tier \in Tiers

\* faulty variant: a tier change starts the identity's usage afresh
SetTierReset(u, tier) ==
  /\ user_tiers' = set_user_tier(u, tier)
  /\ user_tiers' # user_tiers
  /\ audit_timestamps' = [audit_timestamps EXCEPT ![u] = <<>>]
  /\ user_spending' = [user_spending EXCEPT ![u] = [k \in MonthKeys |-> 0]]
  /\ UNCHANGED <<now, global_audit_timestamps, cache, req, settled, noted,
                 payments, quotes, returned, auto>>

SetTier(u, tier) ==
  /\ user_tiers' = set_user_tier(u, tier)
  /\ user_tiers' # user_tiers
  /\ UNCHANGED <<now, audit_timestamps, user_spending,
                 global_audit_timestamps, cache, req, settled, noted, payments, quotes, returned, auto>>

\* the drain loop between two process_batch calls (asyncio.sleep)
IdleDrain == [pc |-> "sleep", queued_jobs |-> <<>>, i |-> 0, k |-> 0,
              started |-> FALSE]

\* no read of the cache has returned yet
NoReturn == [op |-> "none", value |-> <<>>]

\* faulty variant: the passing of time drops the entries older than the TTL
\* from the store and from both indexes
TickPurge(bound) ==
  /\ now < bound
  /\ now' = now + 1
  /\ audit_cache' = SelectSeq(audit_cache,
                       LAMBDA r : ~(now + 1 - r.timestamp > TtlTicks))
  /\ user_index' = [u \in DOMAIN user_index |->
                     SelectSeq(user_index[u],
                       LAMBDA id : CacheHas(audit_cache', id))]
  /\ contract_index' = [c \in DOMAIN contract_index |->
                         SelectSeq(contract_index[c],
                           LAMBDA id : CacheHas(audit_cache', id))]
  /\ UNCHANGED <<ledger, req, settled, noted, payments, quotes, returned, auto>>

\* the clock advances; each specification bounds the run's length
Tick(bound) ==
  /\ now < bound
  /\ now' = now + 1
  /\ UNCHANGED <<ledger, cache, req, settled, noted, payments, quotes, returned, auto>>

Init ==
  /\ now = 0
  /\ user_tiers = [u \in Users |-> default_tier]
  /\ audit_timestamps = [u \in Users |-> <<>>]
  /\ user_spending = [u \in Users |-> [k \in MonthKeys |-> 0]]
  /\ global_audit_timestamps = <<>>
  /\ audit_cache = <<>>
  /\ user_index = [u \in Users |-> <<>>]
  /\ contract_index = [c \in Contracts |-> <<>>]
  /\ req = [s \in Slots |-> IdleReq]
  /\ settled = [u \in Users |-> <<>>]
  /\ noted = NoNote
  /\ pending_payments = <<>>
  /\ payment_history = <<>>
  /\ subscription_users = {}
  /\ quotes = <<>>
  /\ returned = NoReturn
  /\ jobs = <<>>
  /\ audit_queue = <<>>
  /\ drain = IdleDrain

\* ------------------------------------------- one request at a time, fixed tier
\* A caller that waits for each call to return before making the next one.
\* It keeps a copy of the ledger and the cache as they were before the call.
SubmitSeq(producer, u, c, sub, most) ==
  /\ \A s \in Slots : req[s].pc = "idle"
  /\ u \in Users => Len(settled[u]) <= most
  /\ NewRequest(1, producer, u, c, sub, Snapshot)

\* a tier is chosen before the identity's first settled audit and then kept
SetTierSeq(u, tier) ==
  /\ \A s \in Slots : req[s].pc = "idle"
  /\ settled[u] = <<>>
  /\ SetTier(u, tier)

\* time passes between two calls
TickIdle(bound) ==
  /\ \A s \in Slots : req[s].pc = "idle"
  /\ Tick(bound)

\* One Telegram user over more than a day, every external service healthy
HealthyR2 == {"success"}
HealthyNFT == {"prepared"}
HealthyPay == {"pending"}
PlainProfiles == {[critical |-> 0, high |-> 1, medium |-> 1]}

NextDay ==
  \/ \E c \in Contracts : SubmitSeq("interactive", 1, c, FALSE, MaxSettled)
  \/ StageQuota(1)
  \/ StageDedup(1)
  \/ StageFreeAnalysis(1, PlainProfiles)
  \/ StageGPT4(1)
  \/ StageSideEffects(1, HealthyR2, HealthyNFT, HealthyPay, PlainProfiles)
  \/ StageCache(1)
  \/ StageRecord(1)
  \/ Return(1)
  \/ \E tier \in TierNames : SetTierSeq(1, tier)
  \/ TickIdle(MaxTimeDay)

SpecDay == Init /\ [][NextDay]_vars

\* Every producer and every outcome of every external service, one call at
\* a time over a short stretch of time
SeqContracts == {"A", "B"}

NextSeq ==
  \/ \E producer \in Producers, u \in Users \cup {Anonymous},
        c \in SeqContracts, sub \in BOOLEAN :
          SubmitSeq(producer, u, c, sub, MaxSettledSeq)
  \/ StageQuota(1)
  \/ StageQuotaError(1)
  \/ StageDedup(1)
  \/ StageFreeAnalysis(1, Profiles)
  \/ StageGPT4(1)
  \/ StageSideEffects(1, r2_outcomes, nft_outcomes, pay_outcomes, Profiles)
  \/ StageCache(1)
  \/ StageRecord(1)
  \/ ReturnNoted(1)
  \/ \E u \in Users, tier \in TierNames : SetTierSeq(u, tier)
  \/ TickIdle(MaxTimeSeq)

SpecSeq == Init /\ [][NextSeq]_vars

\* ------------------------------------------------ calls running side by side
\* The bot, the API server and the drain loop run in three threads of one
\* process and share quota_manager and audit_cache without a lock.
\* The three producers of requests: audit_command (bot thread),
\* autonomous_audit_workflow (API thread), process_audit_job (drain thread)
ThreadProducers == {"interactive", "webhook", "drain"}

Next ==
  \/ \E s \in Slots, producer \in ThreadProducers,
        u \in Users \cup {Anonymous}, c \in Contracts :
          Submit(s, producer, u, c, FALSE)
  \/ \E s \in Slots : StageQuota(s)
  \/ \E s \in Slots : StageDedup(s)
  \/ \E s \in Slots : StageFreeAnalysis(s, PlainProfiles)
  \/ \E s \in Slots : StageGPT4(s)
  \/ \E s \in Slots : StageSideEffects(s, HealthyR2, HealthyNFT, HealthyPay,
                                       PlainProfiles)
  \/ \E s \in Slots : StageCache(s)
  \/ \E s \in Slots : StageRecord(s)
  \/ \E s \in Slots : Return(s)
  \/ \E u \in Users, tier \in TierNames : SetTierSeq(u, tier)
  \/ Tick(MaxTime)

Spec == Init /\ [][Next]_vars

\* ------------------------------------------------ one user asking all month
\* A free-tier Telegram user who asks for a new audit as soon as the quota
\* lets one through and otherwise waits; contracts are taken in turn.
NextContract(c) ==
  CASE c = "A" -> "B"
    [] c = "B" -> "C"
    [] OTHER -> "A"

LastContract ==
  IF audit_cache = <<>> THEN "C"
  ELSE audit_cache[Len(audit_cache)].contract_address

SubmitMonth ==
  /\ can_audit(1, CostEstimate, now).allowed
  /\ SubmitSeq("interactive", 1, NextContract(LastContract), FALSE, MaxSettledMonth)

TickMonth ==
  /\ ~can_audit(1, CostEstimate, now).allowed
  /\ TickIdle(MaxTimeMonth)

NextMonth ==
  \/ SubmitMonth
  \/ StageQuota(1)
  \/ StageDedup(1)
  \/ StageFreeAnalysis(1, Profiles)
  \/ StageCache(1)
  \/ StageRecord(1)
  \/ Return(1)
  \/ TickMonth

SpecMonth == Init /\ [][NextMonth]_vars

\* ------------------------------------------------------- the payment processor
\* Callers of PaymentProcessor on its own: fee quotes for any workload, risk
\* value and tier, payment requests, confirmations and subscriptions in between.
MaxQuotes == 2
MaxTimeFee == 1
FeeTokens == {0, 1000, 1250000}
FeeRisks == 0..11

\* confirm_payment(payment_id): a pending, unexpired request moves to the
\* history; an unknown or expired one changes nothing
confirm_payment(id, t) ==
  IF id \in DOMAIN pending_payments /\ ~(t > pending_payments[id].expiry)
    THEN [pending_payments |->
            [k \in DOMAIN pending_payments \ {id} |-> pending_payments[k]],
          payment_history |->
            (id :> [pending_payments[id] EXCEPT !.status = "confirmed"])
              @@ payment_history]
    ELSE [pending_payments |-> pending_payments,
          payment_history |-> payment_history]

Quote(tokens, risk, sub) ==
  /\ Len(quotes) < MaxQuotes
  /\ quotes' = Append(quotes, calculate_audit_fee(tokens, risk, sub))
  /\ UNCHANGED <<now, ledger, cache, req, settled, noted, payments,
                 returned, auto>>

CreatePayment(u, c, tokens, risk, sub) ==
  LET pay == create_payment_request("pending", tokens, risk, sub) IN
  /\ pending_payments' =
       store_payment(pending_payments, payment_request(pay, u, c, now))
  /\ pending_payments' # pending_payments
  /\ UNCHANGED <<now, ledger, cache, req, settled, noted, payment_history,
                 subscription_users, quotes, returned, auto>>

ConfirmPayment(id) ==
  /\ id \in DOMAIN pending_payments
  /\ pending_payments' = confirm_payment(id, now).pending_payments
  /\ payment_history' = confirm_payment(id, now).payment_history
  /\ pending_payments' # pending_payments
  /\ UNCHANGED <<now, ledger, cache, req, settled, noted,
                 subscription_users, quotes, returned, auto>>

\* add_subscription(user_id)
AddSubscription(u) ==
  /\ u \notin subscription_users
  /\ subscription_users' = subscription_users \cup {u}
  /\ UNCHANGED <<now, ledger, cache, req, settled, noted, pending_payments,
                 payment_history, quotes, returned, auto>>

NextFee ==
  \/ \E tokens \in FeeTokens, risk \in FeeRisks, sub \in BOOLEAN :
       Quote(tokens, risk, sub)
  \/ \E u \in Users : CreatePayment(u, "A", 1000, 8, FALSE)
  \/ \E id \in DOMAIN pending_payments : ConfirmPayment(id)
  \/ \E u \in Users : AddSubscription(u)
  \/ Tick(MaxTimeFee)

SpecFee == Init /\ [][NextFee]_vars

\* ------------------------------------------------ tier changes between audits
\* One user whose tier is changed at any time between two calls, as in the
\* module's own walk-through (set tier, audit, record, switch tier, check)
MaxSettledTier == 2
MaxTimeTier == 3

SetTierIdle(u, tier) ==
  /\ \A s \in Slots : req[s].pc = "idle"
  /\ SetTier(u, tier)

NextTier ==
  \/ \E c \in SeqContracts : SubmitSeq("interactive", 1, c, FALSE, MaxSettledTier)
  \/ StageQuota(1)
  \/ StageDedup(1)
  \/ StageFreeAnalysis(1, PlainProfiles)
  \/ StageGPT4(1)
  \/ StageSideEffects(1, HealthyR2, HealthyNFT, HealthyPay, PlainProfiles)
  \/ StageCache(1)
  \/ StageRecord(1)
  \/ Return(1)
  \/ \E tier \in TierNames : SetTierIdle(1, tier)
  \/ TickIdle(MaxTimeTier)

SpecTier == Init /\ [][NextTier]_vars

\* the same user, with callers of set_user_tier that look at what it returns;
\* the names they pass are not all tiers
SetTierCall(u, tier) ==
  /\ \A s \in Slots : req[s].pc = "idle"
  /\ user_tiers' = set_user_tier(u, tier)
  /\ returned' = [op |-> "set_user_tier",
                  value |-> <<u, tier, set_user_tier_returns(tier)>>]
  /\ UNCHANGED <<now, audit_timestamps, user_spending,
                 global_audit_timestamps, cache, req, settled, noted, payments,
                 quotes, auto>>

NextTierCall ==
  \/ NextTier
  \/ \E tier \in TierNames : SetTierCall(1, tier)

SpecTierCall == Init /\ [][NextTierCall]_vars

\* ------------------------------------------------ reading the cache
\* One free-tier user whose audits fill the cache, and callers that read the
\* cache between two audits
MaxSettledCache == 2
MaxTimeCache == 2
HistoryLimits == {1, 10}

\* faulty variant: a lookup that finds a record moves it to the newest end of
\* the store, as an LRU cache would
IsRecentAuditPromote(u, c) ==
  LET hit == is_recent_audit(u, c, DayTicks, now) IN
  /\ \A s \in Slots : req[s].pc = "idle"
  /\ returned' = [op |-> "is_recent_audit", value |-> <<hit>>]
  /\ audit_cache' = IF hit = NoRecord THEN audit_cache
                    ELSE Append(SelectSeq(audit_cache, LAMBDA x : x # hit), hit)
  /\ UNCHANGED <<now, ledger, user_index, contract_index, req, settled, noted,
                 payments, quotes, auto>>

\* is_recent_audit called on its own
IsRecentAudit(u, c) ==
  /\ \A s \in Slots : req[s].pc = "idle"
  /\ returned' = [op |-> "is_recent_audit",
                  value |-> <<is_recent_audit(u, c, DayTicks, now)>>]
  /\ UNCHANGED <<now, ledger, cache, req, settled, noted, payments, quotes, auto>>

GetUserHistory(u, limit, include_expired) ==
  /\ \A s \in Slots : req[s].pc = "idle"
  /\ returned' = [op |-> "get_user_history",
                  value |-> get_user_history(u, limit, include_expired, now)]
  /\ UNCHANGED <<now, ledger, cache, req, settled, noted, payments, quotes, auto>>

GetContractHistory(c, limit) ==
  /\ \A s \in Slots : req[s].pc = "idle"
  /\ returned' = [op |-> "get_contract_history",
                  value |-> get_contract_history(c, limit)]
  /\ UNCHANGED <<now, ledger, cache, req, settled, noted, payments, quotes, auto>>

NextCache ==
  \/ \E c \in Contracts : SubmitSeq("interactive", 1, c, FALSE, MaxSettledCache)
  \/ StageQuota(1)
  \/ StageDedup(1)
  \/ StageFreeAnalysis(1, PlainProfiles)
  \/ StageCache(1)
  \/ StageRecord(1)
  \/ Return(1)
  \/ \E u \in Users, c \in Contracts : IsRecentAudit(u, c)
  \/ \E u \in Users, limit \in HistoryLimits, include_expired \in BOOLEAN :
       GetUserHistory(u, limit, include_expired)
  \/ \E c \in Contracts, limit \in HistoryLimits : GetContractHistory(c, limit)
  \/ TickIdle(MaxTimeCache)

SpecCache == Init /\ [][NextCache]_vars

\* ------------------------------------------------ entries growing old
\* One free-tier user with a few audits and long pauses: long enough for an
\* entry to pass the dedup window and the TTL while it is still stored
MaxSettledStale == 2
MaxTimeStale == 16

NextStale ==
  \/ \E c \in Contracts : SubmitSeq("interactive", 1, c, FALSE, MaxSettledStale)
  \/ StageQuota(1)
  \/ StageDedup(1)
  \/ StageFreeAnalysis(1, PlainProfiles)
  \/ StageCache(1)
  \/ StageRecord(1)
  \/ Return(1)
  \/ TickIdle(MaxTimeStale)

SpecStale == Init /\ [][NextStale]_vars

\* ------------------------------------------------ the system-wide throttle
\* Enough identities to settle GLOBAL_LIMIT.audits_per_minute audits within
\* one minute: all but the last are raised to premium, then each asks for
\* audits one after another; an identity takes its turn once those before it
\* are no longer admitted.
NumThrottleUsers == 6
MaxTimeThrottle == 1
ThrottleUsers == 1..NumThrottleUsers

InitThrottle ==
  /\ now = 0
  /\ user_tiers = [u \in ThrottleUsers |-> default_tier]
  /\ audit_timestamps = [u \in ThrottleUsers |-> <<>>]
  /\ user_spending = [u \in ThrottleUsers |-> [k \in MonthKeys |-> 0]]
  /\ global_audit_timestamps = <<>>
  /\ audit_cache = <<>>
  /\ user_index = [u \in ThrottleUsers |-> <<>>]
  /\ contract_index = [c \in Contracts |-> <<>>]
  /\ req = [s \in Slots |-> IdleReq]
  /\ settled = [u \in ThrottleUsers |-> <<>>]
  /\ noted = NoNote
  /\ pending_payments = <<>>
  /\ payment_history = <<>>
  /\ subscription_users = {}
  /\ quotes = <<>>
  /\ returned = NoReturn
  /\ jobs = <<>>
  /\ audit_queue = <<>>
  /\ drain = IdleDrain

\* set_user_tier(u, "premium") for the identities before the last, in turn
Upgrade(u) ==
  /\ u < NumThrottleUsers
  /\ \A v \in ThrottleUsers : v < u => user_tiers[v] = "premium"
  /\ \A s \in Slots : req[s].pc = "idle"
  /\ settled[u] = <<>>
  /\ SetTier(u, "premium")

SubmitThrottle(u) ==
  /\ \A s \in Slots : req[s].pc = "idle"
  /\ \A v \in ThrottleUsers : v < NumThrottleUsers => user_tiers[v] = "premium"
  /\ \A v \in ThrottleUsers :
       v < u => ~can_audit(v, CostEstimate, now).allowed
  /\ NewRequest(1, "interactive", u, NextContract(LastContract), FALSE, NoSnap)

NextThrottle ==
  \/ \E u \in ThrottleUsers : Upgrade(u)
  \/ \E u \in ThrottleUsers : SubmitThrottle(u)
  \/ StageQuota(1)
  \/ StageDedup(1)
  \/ StageFreeAnalysis(1, PlainProfiles)
  \/ StageGPT4(1)
  \/ StageSideEffects(1, HealthyR2, HealthyNFT, HealthyPay, PlainProfiles)
  \/ StageCache(1)
  \/ StageRecord(1)
  \/ Return(1)
  \/ TickIdle(MaxTimeThrottle)

SpecThrottle == InitThrottle /\ [][NextThrottle]_vars

\* ------------------------------------------------ the autonomous job queue
\* AutonomousAuditor: queue_audit called by any client, and the one drain loop
\* (start_autonomous_audit_loop, in a thread and event loop of its own)
MaxJobs == 4
MaxTimeJobs == 1
max_concurrent == 3
GivenJobIds == {"x", "y"}
NoJobId == "None"

\* the statuses a dict returned by analyze_contract can carry
AnalyzeStatuses == {"quota_exceeded", "cached", "success", "error"}

\* job_id = job_id or f"auto_audit_{int(time.time())}"
\* (an id is a pair: the caller's string with 0, or "auto_audit" with the second)
make_job_id(given, t) ==
  IF given = NoJobId THEN <<"auto_audit", t>> ELSE <<given, 0>>

\* AutonomousAuditJob(...): status "queued", no result, no error
new_job(id, c, amount, t) ==
  [job_id |-> id, contract_address |-> c, payment_amount_sol |-> amount,
   created_at |-> t, status |-> "queued", result |-> "None", error |-> "None"]

\* self.audit_queue[job_id] = job: a present key keeps its place in the dict
\* and now refers to the new object
queue_put(q, id, o) ==
  IF \E i \in 1..Len(q) : q[i].job_id = id
    THEN [i \in 1..Len(q) |->
            IF q[i].job_id = id THEN [job_id |-> id, obj |-> o] ELSE q[i]]
    ELSE Append(q, [job_id |-> id, obj |-> o])

\* queue_audit(contract_address, ..., payment_amount_sol, ..., job_id=None)
QueueAudit(given, c, amount) ==
  /\ Len(jobs) < MaxJobs
  /\ jobs' = Append(jobs, new_job(make_job_id(given, now), c, amount, now))
  /\ audit_queue' = queue_put(audit_queue, make_job_id(given, now), Len(jobs) + 1)
  /\ UNCHANGED <<now, ledger, cache, req, settled, noted, payments, quotes,
                 returned, drain>>

\* faulty variant: every job of the queue is taken, whatever its status
queued_jobs_any ==
  [i \in 1..Len(audit_queue) |-> audit_queue[i].obj]

\* process_batch, lines 219-223: the jobs of the queue with status queued
queued_jobs ==
  SelectSeq([i \in 1..Len(audit_queue) |-> audit_queue[i].obj],
            LAMBDA o : jobs[o].status = "queued")

\* process_batch up to its first gather: nothing to do on an empty list
ProcessBatch ==
  /\ drain.pc = "sleep"
  /\ queued_jobs # <<>>
  /\ drain' = [pc |-> "gather", queued_jobs |-> queued_jobs, i |-> 0, k |-> 0,
               started |-> FALSE]
  /\ UNCHANGED <<now, ledger, cache, req, settled, noted, payments, quotes,
                 returned, jobs, audit_queue>>

\* the batch queued_jobs[i:i + max_concurrent] being gathered
batch_size ==
  IF Len(drain.queued_jobs) - drain.i < max_concurrent
    THEN Len(drain.queued_jobs) - drain.i ELSE max_concurrent

\* the job whose task the event loop runs now: no task of a batch suspends
\* before it ends, so the tasks run one after another in list order
current_job == drain.queued_jobs[drain.i + drain.k + 1]

\* process_audit_job, line 108: job.status = "running"
JobStart ==
  /\ drain.pc = "gather"
  /\ ~drain.started
  /\ jobs' = [jobs EXCEPT ![current_job].status = "running"]
  /\ drain' = [drain EXCEPT !.started = TRUE]
  /\ UNCHANGED <<now, ledger, cache, req, settled, noted, payments, quotes,
                 returned, audit_queue>>

\* faulty variant: a job that fails keeps a partial result
job_outcomes_partial ==
  {[status |-> "failed", result |-> "result", error |-> "TypeError"]}

\* process_audit_job, lines 111-206: the analyze_contract call raises
\* TypeError; a dict it returned would have to carry status "completed"
job_outcomes ==
  IF ~call_binds("drain")
    THEN {[status |-> "failed", result |-> "None", error |-> "TypeError"]}
    ELSE {IF st = "completed"
            THEN [status |-> "completed", result |-> "result", error |-> "None"]
            ELSE [status |-> "failed", result |-> "None",
                  error |-> "Analysis failed"] : st \in AnalyzeStatuses}

\* the task ends; after the last task of a batch the next batch is gathered,
\* after the last batch the loop sleeps
JobEnd ==
  /\ drain.pc = "gather"
  /\ drain.started
  /\ \E out \in job_outcomes :
       jobs' = [jobs EXCEPT ![current_job].status = out.status,
                            ![current_job].result = out.result,
                            ![current_job].error = out.error]
  /\ drain' =
       IF drain.k + 1 < batch_size
         THEN [drain EXCEPT !.k = @ + 1, !.started = FALSE]
       ELSE IF drain.i + max_concurrent < Len(drain.queued_jobs)
         THEN [drain EXCEPT !.i = @ + max_concurrent, !.k = 0, !.started = FALSE]
       ELSE IdleDrain
  /\ UNCHANGED <<now, ledger, cache, req, settled, noted, payments, quotes,
                 returned, audit_queue>>

TickJobs ==
  /\ now < MaxTimeJobs
  /\ now' = now + 1
  /\ UNCHANGED <<ledger, cache, req, settled, noted, payments, quotes,
                 returned, auto>>

NextJobs ==
  \/ \E given \in GivenJobIds \cup {NoJobId}, c \in SeqContracts :
       QueueAudit(given, c, 1)
  \/ ProcessBatch
  \/ JobStart
  \/ JobEnd
  \/ TickJobs

SpecJobs == Init /\ [][NextJobs]_vars

\* the event loop runs a started task to its end
FairJobs == SpecJobs /\ WF_vars(JobEnd) /\ WF_vars(JobStart)

\* ==================================================================== claims
\* the entries of stamps inside the rolling window (s - w, s]
WindowCount(stamps, s, w) ==
  Len(SelectSeq(stamps, LAMBDA ts : ts > s - w /\ ts <= s))

\* C1: for an identity with a fixed tier whose calls run one after another,
\* the number of audits settled by record_audit inside any rolling hour never
\* exceeds the tier's audits_per_hour, and inside any rolling day never exceeds
\* its audits_per_day.
C1_RollingHourDay ==
  \A u \in Users : \A s \in 0..now :
    /\ WindowCount(settled[u], s, HourTicks)
         <= TIERS[user_tiers[u]].audits_per_hour
    /\ WindowCount(settled[u], s, DayTicks)
         <= TIERS[user_tiers[u]].audits_per_day

\* a call denied by the daily limit after a full day's worth of settled audits
C1_DailyLimitReached ==
  /\ req[1].pc = "done"
  /\ req[1].status = "quota_exceeded"
  /\ req[1].reason = "Daily limit reached"
  /\ WindowCount(settled[1], now, DayTicks)
       = TIERS[user_tiers[1]].audits_per_day

\* C2: for an identity with a fixed tier whose calls run one after another,
\* the number of audits settled inside any rolling month never exceeds the
\* tier's audits_per_month.
C2_RollingMonth ==
  \A u \in Users : \A s \in 0..now :
    WindowCount(settled[u], s, MonthTicks)
      <= TIERS[user_tiers[u]].audits_per_month

\* C3: for a call of an identified requester, record_audit runs if and only
\* if can_audit allowed the call and the analyzer chosen for it (local or
\* external) succeeded; it runs at most once, and never for a call that ends
\* Denied, Cached or Failed.
C3_RecordIffAdmittedAndAnalysed ==
  \A s \in Slots :
    LET r == req[s] IN
    r.user_id > 0 =>
      /\ r.records <= 1
      /\ r.records = 1 => r.admitted /\ r.analysis = "ok"
      /\ r.pc = "done" /\ r.status # "raised" =>
           /\ r.records = 1 <=> (r.admitted /\ r.analysis = "ok")
           /\ r.status \in {"quota_exceeded", "cached", "error"}
                => r.records = 0

\* a settled call of an identified requester on the external path
C3_PaidCallRecorded ==
  /\ req[1].pc = "done"
  /\ req[1].user_id > 0
  /\ req[1].analyzer = "gpt4"
  /\ req[1].records = 1
  /\ settled[req[1].user_id] # <<>>

\* C4: calls of one identity running side by side never settle more audits
\* inside a rolling hour than the tier's audits_per_hour: of N concurrent
\* calls made with one hourly admission left, only one is admitted and settled.
C4_HourlyLimitUnderConcurrency ==
  \A u \in Users : \A s \in 0..now :
    WindowCount(settled[u], s, HourTicks)
      <= TIERS[user_tiers[u]].audits_per_hour

\* C5: the dedup lookup and the cache insert of a call are one atomic step
\* per identity: two calls for the same (identity, subject) are never both
\* between a lookup that missed and their insert, so at most one of them runs
\* the analyzer and the other ends Cached.
C5_LookupInsertAtomic ==
  \A s, t \in Slots :
    (/\ s # t
     /\ req[s].user_id > 0
     /\ req[s].user_id = req[t].user_id
     /\ req[s].contract = req[t].contract
     /\ req[s].admitted /\ req[t].admitted)
    => ~(/\ req[s].pc \in {"analyze", "side", "cache"}
         /\ req[t].pc \in {"analyze", "side", "cache"})

C7_OneOfFourOutcomes ==
  \A s \in Slots :
    LET r == req[s] IN
    r.pc = "done" =>
      /\ r.status \in {"quota_exceeded", "cached", "success", "error"}
      /\ r.status \in {"quota_exceeded", "cached"} => r.analyzer_calls = 0
      /\ r.status \in {"success", "error"} => r.analyzer_calls = 1

\* C8 (as stated): when the analyzer fails for an admitted call, the call
\* returns the Failed outcome with its reason and the quota ledger and the
\* cache are exactly as they were before the call.
C8_FailureLeavesStateUntouched ==
  \A s \in Slots :
    LET r == req[s] IN
    (r.pc = "done" /\ r.admitted /\ r.analysis = "failed" /\ r.snap.taken) =>
      /\ r.status = "error" /\ r.reason # "none"
      /\ audit_timestamps = r.snap.audit_timestamps
      /\ user_spending = r.snap.user_spending
      /\ global_audit_timestamps = r.snap.global_audit_timestamps
      /\ audit_cache = r.snap.audit_cache
      /\ user_index = r.snap.user_index
      /\ contract_index = r.snap.contract_index

\* C8 (amended): when the analyzer fails for an admitted call, the call
\* returns the Failed outcome with its reason; nothing is recorded and nothing
\* is cached: spending, the global timestamps, the cache and its two indexes
\* are as before the call, and the identity's timestamp list is the one
\* before the call without the entries older than 24 hours, which can_audit
\* dropped.
C8_FailureRecordsNothing ==
  \A s \in Slots :
    LET r == req[s] IN
    (r.pc = "done" /\ r.admitted /\ r.analysis = "failed" /\ r.snap.taken) =>
      /\ r.status = "error" /\ r.reason # "none"
      /\ r.records = 0 /\ r.cache_writes = 0
      /\ audit_timestamps =
           [r.snap.audit_timestamps EXCEPT ![r.user_id] =
              SelectSeq(@, LAMBDA ts : ts > now - DayTicks)]
      /\ user_spending = r.snap.user_spending
      /\ global_audit_timestamps = r.snap.global_audit_timestamps
      /\ audit_cache = r.snap.audit_cache
      /\ user_index = r.snap.user_index
      /\ contract_index = r.snap.contract_index

\* a failed external analysis of an admitted call whose quota check dropped
\* a timestamp older than 24 hours
C8_FailedAfterPurge ==
  /\ req[1].pc = "done"
  /\ req[1].admitted
  /\ req[1].analysis = "failed"
  /\ req[1].status = "error"
  /\ req[1].snap.taken
  /\ Len(audit_timestamps[1]) < Len(req[1].snap.audit_timestamps[1])

\* C9: once the analyzer has succeeded for an admitted call, whatever the
\* outcomes of the R2 upload, the NFT anchor and the payment request, the call
\* ends Completed, the cache write is performed once and record_audit runs
\* once; a failed upload or anchor only leaves its reference absent from the
\* cached record.
C9_SettlementDespiteSideEffects ==
  \A s \in Slots :
    LET r == req[s] IN
    (r.pc = "done" /\ r.admitted /\ r.analysis = "ok") =>
      /\ r.status = "success"
      /\ r.cache_writes = 1
      /\ r.records = 1
      /\ CacheHas(audit_cache, make_audit_id(r.user_id, now))
      /\ r.analyzer = "gpt4" =>
           LET rec == CacheGet(audit_cache, make_audit_id(r.user_id, now)) IN
           /\ rec.contract_address = r.contract
           /\ rec.r2_url = "None" <=> r.result.r2_storage.status # "success"
           /\ rec.nft_hash = "None" <=> r.result.nft_anchor.status # "prepared"

\* a Completed call whose upload, anchor and payment request all failed
C9_AllSideEffectsFailed ==
  /\ req[1].pc = "done"
  /\ req[1].admitted
  /\ req[1].analyzer = "gpt4"
  /\ req[1].status = "success"
  /\ req[1].records = 1
  /\ req[1].result.r2_storage.status = "error"
  /\ req[1].result.nft_anchor.status = "error"
  /\ req[1].result.payment.status = "error"

\* C10: when a call of an identity for a subject completed with risk
\* classification R and the identity resubmits the subject within the
\* freshness window, the second call ends Cached and the cached record carries
\* the risk classification R.
C10_CachedRiskIsFirstRisk ==
  \A s \in Slots :
    LET r == req[s] IN
    (/\ r.pc = "done"
     /\ noted.user_id > 0
     /\ r.user_id = noted.user_id
     /\ r.contract = noted.contract
     /\ r.status # "quota_exceeded")
    => /\ r.status = "cached"
       /\ r.cached_record.risk_score = noted.risk

\* how often id occurs in an index list
IndexSlots(ids, id) == Cardinality({j \in 1..Len(ids) : ids[j] = id})

\* C11: after any sequence of add_audit calls made with the ids the
\* coordinator generates, every stored record has exactly one slot in
\* user_index under its user and exactly one in contract_index under its
\* contract, and every id in either index is the id of a stored record of that
\* user and that contract.
C11_IndexesMatchStore ==
  /\ \A i \in 1..Len(audit_cache) :
       LET r == audit_cache[i] IN
       /\ IndexSlots(user_index[r.user_id], r.audit_id) = 1
       /\ IndexSlots(contract_index[r.contract_address], r.audit_id) = 1
  /\ \A u \in DOMAIN user_index : \A j \in 1..Len(user_index[u]) :
       /\ CacheHas(audit_cache, user_index[u][j])
       /\ CacheGet(audit_cache, user_index[u][j]).user_id = u
  /\ \A c \in DOMAIN contract_index : \A j \in 1..Len(contract_index[c]) :
       /\ CacheHas(audit_cache, contract_index[c][j])
       /\ CacheGet(audit_cache, contract_index[c][j]).contract_address = c

\* C12: add_audit on a cache holding max_size entries removes exactly one
\* entry, the one inserted earliest, from the primary store and from both
\* indexes, and then adds the new entry; the store never holds more than
\* max_size entries.
C12_EvictsExactlyOldest ==
  [][ /\ Len(audit_cache') <= MaxSize
      /\ (audit_cache' # audit_cache /\ Len(audit_cache) >= MaxSize) =>
           LET old == Head(audit_cache)
               new == audit_cache'[Len(audit_cache')]
           IN /\ audit_cache' = Append(Tail(audit_cache), new)
              /\ ~InSeq(user_index'[old.user_id], old.audit_id)
              /\ ~InSeq(contract_index'[old.contract_address], old.audit_id)
    ]_vars

\* the lookback periods a lookup is made with
Windows == {HourTicks, DayTicks}

\* the stored records of identity u and subject c that user_index[u] lists
StoredFor(u, c) ==
  {i \in 1..Len(audit_cache) :
     /\ audit_cache[i].user_id = u
     /\ audit_cache[i].contract_address = c
     /\ InSeq(user_index[u], audit_cache[i].audit_id)}

\* C13: is_recent_audit(identity, subject, within) returns a record only if
\* it is a record of that identity and that subject whose age is at most
\* within, an age equal to within included; of several such records it
\* returns the one inserted last; it returns absent only when there is none.
C13_LookupWithinWindow ==
  \A u \in DOMAIN user_index, c \in Contracts, w \in Windows :
    LET r    == is_recent_audit(u, c, w, now)
        live == {i \in StoredFor(u, c) : now - audit_cache[i].timestamp <= w}
    IN IF live = {} THEN r = NoRecord
       ELSE /\ r # NoRecord
            /\ r.user_id = u /\ r.contract_address = c
            /\ now - r.timestamp <= w
            /\ \A i \in live : audit_cache[i].timestamp <= r.timestamp

\* C14: whenever an entry for the pair (identity, subject) was inserted
\* within H of the current time, is_recent_audit(identity, subject, H)
\* returns an entry for that pair, and it returns absent whenever no entry for
\* the pair was inserted within H.  The entries a caller saw in the cache
\* before its call were inserted at their timestamps.
C14_FoundIffInsertedWithinWindow ==
  /\ \A s \in Slots : req[s].snap.taken =>
       \A i \in 1..Len(req[s].snap.audit_cache) :
         LET p == req[s].snap.audit_cache[i] IN
         now - p.timestamp < DayTicks =>
           LET r == is_recent_audit(p.user_id, p.contract_address, DayTicks, now)
           IN r # NoRecord /\ r.user_id = p.user_id
                           /\ r.contract_address = p.contract_address
  /\ \A u \in DOMAIN user_index, c \in Contracts :
       LET r == is_recent_audit(u, c, DayTicks, now) IN
       r # NoRecord =>
         /\ r.user_id = u /\ r.contract_address = c
         /\ now - r.timestamp < DayTicks
         /\ \E i \in 1..Len(audit_cache) : audit_cache[i] = r

\* two quotes made for the same (tokens_used, risk_score, is_subscriber)
SameInputs(a, b) ==
  /\ a.tokens_used = b.tokens_used
  /\ a.risk_score = b.risk_score
  /\ a.breakdown.is_subscriber = b.breakdown.is_subscriber

C16_FeeMonotone ==
  /\ \A i \in 1..Len(quotes) : quotes[i].fee_lamports >= 0
  /\ \A i, j \in 1..Len(quotes) :
       quotes[i].breakdown.is_subscriber = quotes[j].breakdown.is_subscriber =>
         /\ (/\ quotes[i].risk_score = quotes[j].risk_score
             /\ quotes[i].tokens_used <= quotes[j].tokens_used)
              => quotes[i].fee_lamports <= quotes[j].fee_lamports
         /\ (/\ quotes[i].tokens_used = quotes[j].tokens_used
             /\ quotes[i].risk_score \in 1..10
             /\ quotes[j].risk_score \in 1..10
             /\ quotes[i].risk_score <= quotes[j].risk_score)
              => quotes[i].fee_lamports <= quotes[j].fee_lamports

\* the same workload quoted for bucket 5 and then for bucket 6
C16_DearerBucket ==
  /\ Len(quotes) = 2
  /\ quotes[1].tokens_used = 1250000 /\ quotes[2].tokens_used = 1250000
  /\ quotes[1].breakdown.is_subscriber = quotes[2].breakdown.is_subscriber
  /\ quotes[1].risk_score = 5 /\ quotes[2].risk_score = 6
  /\ quotes[1].fee_lamports = 60000001
  /\ quotes[2].fee_lamports = 75000001

\* a free quote a and a subscriber quote b for the same workload and risk
FreeAndSubscriber(a, b) ==
  /\ a.tokens_used = b.tokens_used
  /\ a.risk_score = b.risk_score
  /\ ~a.breakdown.is_subscriber
  /\ b.breakdown.is_subscriber

\* C17 (as stated): for every workload and risk bucket the subscriber total
\* is not greater than the free total, base fee, workload fee and risk
\* multiplier are the same in both quotes, and the subscriber total in
\* lamports equals the free total reduced by 20%.
C17_SubscriberExactlyFifthOff ==
  \A i, j \in 1..Len(quotes) :
    FreeAndSubscriber(quotes[i], quotes[j]) =>
      /\ quotes[j].fee_lamports <= quotes[i].fee_lamports
      /\ quotes[j].breakdown.base_fee = quotes[i].breakdown.base_fee
      /\ quotes[j].breakdown.token_fee = quotes[i].breakdown.token_fee
      /\ quotes[j].breakdown.risk_multiplier = quotes[i].breakdown.risk_multiplier
      /\ 5 * quotes[j].fee_lamports = 4 * quotes[i].fee_lamports

\* C17 (amended): the subscriber total is not greater than the free total,
\* base fee, workload fee and risk multiplier are the same, the discount is
\* 20% of the unrounded subtotal, and the subscriber total in lamports is
\* within one lamport of the free total reduced by 20%; it equals it
\* whenever the workload fee times the multiplier is below one lamport.
C17_SubscriberFifthOffBeforeRounding ==
  \A i, j \in 1..Len(quotes) :
    FreeAndSubscriber(quotes[i], quotes[j]) =>
      LET free == quotes[i]
          sub  == quotes[j]
          m    == free.breakdown.risk_multiplier
      IN /\ sub.fee_lamports <= free.fee_lamports
         /\ sub.breakdown.base_fee = free.breakdown.base_fee
         /\ sub.breakdown.token_fee = free.breakdown.token_fee
         /\ sub.breakdown.risk_multiplier = m
         /\ free.breakdown.discount = [lamports |-> 0, e8 |-> 0]
         /\ 50 * sub.breakdown.discount.lamports = free.breakdown.base_fee * m
         /\ sub.breakdown.discount.e8 = 2 * free.breakdown.token_fee * m
         /\ 5 * sub.fee_lamports - 4 * free.fee_lamports \in -4..4
         /\ free.breakdown.token_fee * m < 10000000 =>
              5 * sub.fee_lamports = 4 * free.fee_lamports

\* 1,250,000 tokens at bucket 1 quoted for both tiers: 50000001 and
\* 40000001 lamports
C17_RoundedQuotes ==
  /\ Len(quotes) = 2
  /\ FreeAndSubscriber(quotes[1], quotes[2])
  /\ quotes[1].tokens_used = 1250000 /\ quotes[1].risk_score = 1
  /\ quotes[1].fee_lamports = 50000001
  /\ quotes[2].fee_lamports = 40000001

\* C18: calculate_audit_fee never fails on an out-of-range risk value and
\* clamps it to [1,10]: a value below 1 is priced with the multiplier of
\* bucket 1 and a value above 10 with the multiplier of bucket 10.
C18_RiskClamped ==
  \A i \in 1..Len(quotes) :
    /\ quotes[i].status = "calculated"
    /\ quotes[i].risk_score < 1 =>
         quotes[i].breakdown.risk_multiplier = risk_multiplier10(1)
    /\ quotes[i].risk_score > 10 =>
         quotes[i].breakdown.risk_multiplier = risk_multiplier10(10)

\* the answer the fixed order of checks gives for identity u at time t, the
\* counts taken from the audits settled in the trailing hour, day and month
first_violated(u, est, t) ==
  LET quota == TIERS[user_tiers[u]] IN
  IF WindowCount(settled[u], t, HourTicks) >= quota.audits_per_hour
    THEN "Hourly limit reached"
  ELSE IF WindowCount(settled[u], t, DayTicks) >= quota.audits_per_day
    THEN "Daily limit reached"
  ELSE IF WindowCount(settled[u], t, MonthTicks) >= quota.audits_per_month
    THEN "Monthly limit reached"
  ELSE IF user_spending[u][MonthKey(t)] + est > quota.monthly_budget_sol
    THEN "Monthly budget limit reached"
  ELSE IF global_last_minute(t) >= GLOBAL_LIMIT.audits_per_minute
    THEN "System rate limit reached"
  ELSE "Quota OK"

\* C19: can_audit checks hourly count, daily count, monthly count, monthly
\* budget and the system-wide count of the trailing minute in this order and
\* denies with the first of them that is violated; it allows when none is.
C19_FirstViolatedConstraintNamed ==
  \A u \in Users :
    LET d == can_audit(u, CostEstimate, now) IN
    /\ d.reason = first_violated(u, CostEstimate, now)
    /\ d.allowed <=> first_violated(u, CostEstimate, now) = "Quota OK"

\* C20: when evaluating the admission checks fails with an internal error,
\* can_audit returns a denial, never an allowance and never an exception, and
\* analyze_contract ends the request as Denied without running the analysis.
C20_QuotaErrorFailsClosed ==
  /\ \A u \in Users, purged \in BOOLEAN :
       ~can_audit_error(u, now, purged).allowed
  /\ \A s \in Slots :
       req[s].reason = "Quota check error" =>
         /\ req[s].pc = "done"
         /\ req[s].status = "quota_exceeded"
         /\ ~req[s].admitted
         /\ req[s].analyzer_calls = 0
         /\ req[s].cache_writes = 0
         /\ req[s].records = 0

\* a request denied by the error although the quota itself had room
C20_DeniedByError ==
  \E s \in Slots :
    /\ req[s].pc = "done"
    /\ req[s].reason = "Quota check error"
    /\ req[s].status = "quota_exceeded"
    /\ can_audit(req[s].user_id, CostEstimate, now).allowed

\* the hour, day and month counts can_audit computes at time t from a list of
\* timestamps (lines 118-136)
counts_at(stamps, t) ==
  [hour  |-> audits_this_hour(PurgeOld(stamps, t), t),
   day   |-> audits_this_day(PurgeOld(stamps, t), t),
   month |-> audits_this_month(PurgeOld(stamps, t))]

\* C21: a request that can_audit denies adds nothing to the ledger: no
\* timestamp is appended for the identity, its monthly spend is unchanged, no
\* global timestamp is appended, and the hour, day and month counts of any
\* later admission check are those it would compute had the request never
\* been submitted.
C21_DenialAddsNothing ==
  \A s \in Slots :
    LET r == req[s] IN
    (r.pc = "done" /\ r.status = "quota_exceeded" /\ r.snap.taken) =>
      /\ r.records = 0
      /\ Len(audit_timestamps[r.user_id]) <= Len(r.snap.audit_timestamps[r.user_id])
      /\ \A i \in 1..Len(audit_timestamps[r.user_id]) :
           InSeq(r.snap.audit_timestamps[r.user_id], audit_timestamps[r.user_id][i])
      /\ \A u \in Users \ {r.user_id} :
           audit_timestamps[u] = r.snap.audit_timestamps[u]
      /\ user_spending = r.snap.user_spending
      /\ global_audit_timestamps = r.snap.global_audit_timestamps
      /\ \A t \in now..(now + DayTicks) :
           counts_at(audit_timestamps[r.user_id], t)
             = counts_at(r.snap.audit_timestamps[r.user_id], t)

\* a request denied at the hourly limit whose check dropped a timestamp older
\* than 24 hours
C21_DeniedAfterPurge ==
  /\ req[1].pc = "done"
  /\ req[1].status = "quota_exceeded"
  /\ req[1].reason = "Hourly limit reached"
  /\ req[1].snap.taken
  /\ Len(audit_timestamps[1]) < Len(req[1].snap.audit_timestamps[1])

\* C22: on a cache miss the analyzer is chosen by the identity's tier in the
\* quota ledger alone: a free identity is always analysed by the local
\* pattern analyzer and a subscriber or premium identity by the external paid
\* analyzer, whatever else the caller passes.
C22_AnalyzerChosenByTier ==
  \A s \in Slots :
    LET r == req[s] IN
    (r.user_id > 0 /\ r.analyzer # "none") =>
      /\ get_user_tier(r.user_id) = "free" => r.analyzer = "free"
      /\ get_user_tier(r.user_id) \in {"subscriber", "premium"} =>
           r.analyzer = "gpt4"

\* C23: for every Completed request the fee attached to the outcome is
\* calculate_audit_fee of the workload size and the risk classification the
\* analysis of that request returned, at the identity's tier (so two
\* analyses with different multipliers are charged differently for the same
\* workload).
C23_FeeFromAnalysisRisk ==
  \A s \in Slots :
    LET r == req[s] IN
    (/\ r.pc = "done" /\ r.status = "success" /\ r.analyzer = "gpt4"
     /\ r.user_id > 0 /\ r.risk > 0
     /\ DictGet(r.result, "payment", EmptyDict) # EmptyDict
     /\ r.result.payment.status = "pending") =>
      r.result.payment.amount_lamports =
        calculate_audit_fee(r.result.tokens_used, r.risk,
                            get_user_tier(r.user_id) # "free").fee_lamports

FreshSubject(r) ==
  /\ r.pc = "done" /\ r.user_id > 0 /\ r.snap.taken
  /\ \A i \in 1..Len(settled[r.user_id]) :
       settled[r.user_id][i] > now - HourTicks
  /\ \A i \in 1..Len(r.snap.audit_cache) :
       r.snap.audit_cache[i].contract_address # r.contract

\* the number of audits settled for the identity before the finished call
SettledBefore(r) == Len(settled[r.user_id]) - r.records

\* C25 (as stated): an identity with no prior usage and hourly limit L that
\* submits L+1 requests for distinct subjects one after another within one
\* hour gets Completed for each of the first L and Denied with the hourly
\* reason for request L+1.
C25_FirstLCompletedThenDenied ==
  \A s \in Slots :
    LET r == req[s]
        L == TIERS[get_user_tier(r.user_id)].audits_per_hour
    IN FreshSubject(r) =>
         /\ SettledBefore(r) < L => r.status = "success"
         /\ SettledBefore(r) >= L =>
              r.status = "quota_exceeded" /\ r.reason = "Hourly limit reached"

\* C25 (amended): each of the first L requests is admitted and is Completed
\* unless its external analysis fails (never for a free identity, whose
\* analysis is local); a request made while L audits are settled within the
\* hour is Denied with the hourly reason.
C25_FirstLAdmittedThenDenied ==
  \A s \in Slots :
    LET r == req[s]
        L == TIERS[get_user_tier(r.user_id)].audits_per_hour
    IN FreshSubject(r) =>
         /\ SettledBefore(r) < L =>
              /\ r.admitted
              /\ r.status \in {"success", "error"}
              /\ r.status = "error" => r.analyzer = "gpt4" /\ r.analysis = "failed"
              /\ free_route(r) => r.status = "success"
         /\ SettledBefore(r) >= L =>
              r.status = "quota_exceeded" /\ r.reason = "Hourly limit reached"

\* the third request of a free identity within the hour, for a third subject
C25_ThirdDenied ==
  /\ FreshSubject(req[1])
  /\ get_user_tier(1) = "free"
  /\ Len(settled[1]) = 2
  /\ req[1].contract = "C"
  /\ req[1].status = "quota_exceeded"
  /\ req[1].reason = "Hourly limit reached"

\* C27: an identity never seen before has tier free without any registration
\* call: before the first call its quota report names tier free with the
\* limits 2 per hour, 5 per day and 20 per month and its admission check
\* passes; its tier changes only by a set_user_tier call; and as long as the
\* tier is free every admission check of the identity allows exactly when
\* fewer than 2, 5 and 20 audits are counted in the hour, the day and the list.
C27_UnseenIdentityIsFree ==
  /\ \A u \in Users :
       /\ get_user_quota_info(u, now).tier = "free"
       /\ get_user_quota_info(u, now).limits.audits_per_hour = 2
       /\ get_user_quota_info(u, now).limits.audits_per_day = 5
       /\ get_user_quota_info(u, now).limits.audits_per_month = 20
       /\ get_user_quota_info(u, now).usage.audits_this_hour = <<0, 2>>
       /\ can_audit(u, CostEstimate, now).allowed
  /\ [][/\ \A u \in Users :
            get_user_tier(u)' # get_user_tier(u) =>
              /\ req' = req
              /\ \E tier \in Tiers : user_tiers' = set_user_tier(u, tier)
        /\ \A s \in Slots :
            (/\ req[s].pc = "admit" /\ req[s].user_id > 0
             /\ req'[s].quota_calls = req[s].quota_calls + 1
             /\ get_user_tier(req[s].user_id) = "free") =>
              LET n == counts_at(audit_timestamps[req[s].user_id], now) IN
              req'[s].admitted <=> (n.hour < 2 /\ n.day < 5 /\ n.month < 20)
       ]_vars

\* the first request of an identity that is still on the default tier has
\* passed its admission check, and the report shows free-tier limits
C27_FirstCheckOnDefault ==
  /\ req[1].pc = "dedup"
  /\ req[1].admitted
  /\ req[1].quota_calls = 1
  /\ settled[1] = <<>>
  /\ audit_cache = <<>>
  /\ get_user_quota_info(1, now).tier = default_tier
  /\ get_user_quota_info(1, now).usage.audits_this_day = <<0, 5>>

\* C28: a successful set_user_tier(identity, t) leaves the identity's recorded
\* timestamps and monthly spend (and every other ledger field) unchanged and
\* sets its tier to t; every admission check is decided with the limits and
\* the budget of the identity's tier at that moment, applied to the usage
\* recorded so far.
C28_TierChangeKeepsUsage ==
  [][/\ \A u \in Users :
          get_user_tier(u)' # get_user_tier(u) =>
            /\ get_user_tier(u)' \in Tiers
            /\ audit_timestamps' = audit_timestamps
            /\ user_spending' = user_spending
            /\ global_audit_timestamps' = global_audit_timestamps
     /\ \A s \in Slots :
          (/\ req[s].pc = "admit" /\ req[s].user_id > 0
           /\ req'[s].quota_calls = req[s].quota_calls + 1) =>
            LET u == req[s].user_id
                q == TIERS[get_user_tier(u)]
                n == counts_at(audit_timestamps[u], now)
            IN req'[s].admitted <=>
                 /\ n.hour < q.audits_per_hour
                 /\ n.day < q.audits_per_day
                 /\ n.month < q.audits_per_month
                 /\ user_spending[u][MonthKey(now)] + CostEstimate
                      <= q.monthly_budget_sol
                 /\ global_last_minute(now) < GLOBAL_LIMIT.audits_per_minute
    ]_vars

\* two audits settled on the free tier within the hour (nothing spent), the
\* tier then raised to subscriber, and the third request admitted
C28_AdmittedAfterUpgrade ==
  /\ req[1].pc = "dedup"
  /\ req[1].admitted
  /\ get_user_tier(1) = "subscriber"
  /\ Len(settled[1]) = 2
  /\ user_spending[1][MonthKey(now)] = 0
  /\ counts_at(audit_timestamps[1], now).hour = 2

\* C29: in analyze_contract the dedup lookup comes only after can_audit has
\* allowed the request: a Cached outcome is returned only to a request that
\* passed one admission check and whose identity passes admission at that
\* moment, and a request of an identity that is at one of its limits ends
\* Denied, without a cached record, even when the cache holds a fresh entry
\* for the same identity and subject.
C29_DedupAfterAdmission ==
  \A s \in Slots :
    LET r == req[s] IN
    (r.pc = "done" /\ r.user_id > 0) =>
      /\ r.status = "cached" =>
           /\ r.admitted
           /\ r.quota_calls = 1
           /\ can_audit(r.user_id, CostEstimate, now).allowed
      /\ (r.records = 0 /\ ~can_audit(r.user_id, CostEstimate, now).allowed) =>
           /\ r.status = "quota_exceeded"
           /\ ~r.admitted
           /\ r.cached_record = NoRecord

\* a request denied at a limit while the cache holds an entry of the last 24
\* hours for the same identity and subject
C29_DeniedDespiteFreshEntry ==
  /\ req[1].pc = "done"
  /\ req[1].status = "quota_exceeded"
  /\ is_recent_audit(1, req[1].contract, DayTicks, now) # NoRecord

StorePos(rec) == CHOOSE i \in 1..Len(audit_cache) : audit_cache[i] = rec

\* C31: get_user_history(identity) returns stored entries of that identity
\* only, each once, newest-inserted first, and none that is not in the
\* store; get_contract_history(subject) likewise for the subject.
C31_HistoryOfOwnEntriesNewestFirst ==
  /\ \A u \in Users, limit \in HistoryLimits, include_expired \in BOOLEAN :
       LET h == get_user_history(u, limit, include_expired, now) IN
       /\ \A i \in 1..Len(h) :
            /\ h[i].user_id = u
            /\ \E k \in 1..Len(audit_cache) : audit_cache[k] = h[i]
       /\ \A i, j \in 1..Len(h) :
            i < j => StorePos(h[i]) > StorePos(h[j])
  /\ \A c \in Contracts, limit \in HistoryLimits :
       LET h == get_contract_history(c, limit) IN
       /\ \A i \in 1..Len(h) :
            /\ h[i].contract_address = c
            /\ \E k \in 1..Len(audit_cache) : audit_cache[k] = h[i]
       /\ \A i, j \in 1..Len(h) :
            i < j => StorePos(h[i]) > StorePos(h[j])

\* C32: the passing of time alone never removes a cache entry.  A step of
\* the clock leaves the store and both indexes unchanged; an id leaves the
\* store only as the head of a store at capacity, in a step that is not a
\* step of the clock; an entry older than the TTL is still stored and indexed
\* and is only left out of get_user_history without include_expired, and an
\* entry older than the dedup window is only left out of is_recent_audit.
C32_TimeNeverRemoves ==
  /\ [](\A i \in 1..Len(audit_cache) :
          LET r == audit_cache[i] IN
          /\ InSeq(user_index[r.user_id], r.audit_id)
          /\ InSeq(contract_index[r.contract_address], r.audit_id)
          /\ now - r.timestamp > TtlTicks =>
               /\ \A k \in 1..Len(get_user_history(r.user_id, 10, FALSE, now)) :
                    get_user_history(r.user_id, 10, FALSE, now)[k] # r
               /\ \E k \in 1..Len(get_user_history(r.user_id, 10, TRUE, now)) :
                    get_user_history(r.user_id, 10, TRUE, now)[k] = r
          /\ now - r.timestamp >= DayTicks =>
               is_recent_audit(r.user_id, r.contract_address, DayTicks, now) # r)
  /\ [][/\ now' # now =>
             /\ audit_cache' = audit_cache
             /\ user_index' = user_index
             /\ contract_index' = contract_index
        /\ \A i \in 1..Len(audit_cache) :
             ~CacheHas(audit_cache', audit_cache[i].audit_id) =>
               /\ i = 1
               /\ Len(audit_cache) >= MaxSize
               /\ now' = now
       ]_vars

\* the store is at capacity and its oldest entry is older than the TTL: it
\* still occupies a slot and is indexed, and the freshness-filtered lookups
\* leave it out
C32_StaleEntryHoldsSlot ==
  /\ Len(audit_cache) = MaxSize
  /\ now - Head(audit_cache).timestamp > TtlTicks
  /\ InSeq(user_index[1], Head(audit_cache).audit_id)
  /\ InSeq(contract_index[Head(audit_cache).contract_address],
           Head(audit_cache).audit_id)
  /\ is_recent_audit(1, Head(audit_cache).contract_address, DayTicks, now) = NoRecord
  /\ Len(get_user_history(1, 10, FALSE, now)) < Len(get_user_history(1, 10, TRUE, now))

\* C33: usage rolls off by time alone.  At every moment the admission check
\* of an identity names the hourly limit exactly when as many of its settled
\* audits as the tier's audits_per_hour lie within the last hour, names the
\* daily limit exactly when that is not so and as many as audits_per_day lie
\* within the last 24 hours, and allows when neither is so: an audit one hour
\* (24 hours) old no longer counts, and nothing but the clock has to move.
C33_UsageRollsOff ==
  \A u \in Users :
    LET q   == TIERS[get_user_tier(u)]
        h   == WindowCount(settled[u], now, HourTicks)
        d   == WindowCount(settled[u], now, DayTicks)
        dec == can_audit(u, CostEstimate, now)
    IN /\ dec.reason = "Hourly limit reached" <=> h >= q.audits_per_hour
       /\ dec.reason = "Daily limit reached" <=>
            (h < q.audits_per_hour /\ d >= q.audits_per_day)
       /\ dec.allowed <=> (h < q.audits_per_hour /\ d < q.audits_per_day)

\* a free-tier identity that was at its hourly limit one tick ago is admitted
\* now: the older of its audits has left the hour
C33_AdmittedAfterRollOff ==
  /\ req[1].pc = "dedup"
  /\ req[1].admitted
  /\ get_user_tier(1) = "free"
  /\ WindowCount(settled[1], now - 1, HourTicks) >= 2
  /\ WindowCount(settled[1], now, HourTicks) < 2
  /\ Len(settled[1]) >= 2

\* the audits of all identities settled inside the window (s - w, s]
RECURSIVE SettledInWindow(_, _, _)
SettledInWindow(us, s, w) ==
  IF us = {} THEN 0
  ELSE LET u == CHOOSE x \in us : TRUE
       IN WindowCount(settled[u], s, w) + SettledInWindow(us \ {u}, s, w)

\* C34 as stated: the audits settled by all identities within any trailing
\* minute never exceed GLOBAL_LIMIT.audits_per_minute, and while that many
\* lie in the trailing minute every identity is denied with the system rate
\* limit reason, whatever its own counters and tier.
C34_ThrottleDeniesAllWithSystemReason ==
  /\ \A s \in 0..now :
       SettledInWindow(DOMAIN settled, s, MinuteTicks)
         <= GLOBAL_LIMIT.audits_per_minute
  /\ SettledInWindow(DOMAIN settled, now, MinuteTicks)
       >= GLOBAL_LIMIT.audits_per_minute =>
       \A u \in DOMAIN settled :
         can_audit(u, CostEstimate, now).reason = "System rate limit reached"

\* C34, amended: the cap on the trailing minute holds, and while the cap is
\* reached every identity is denied: with the reason of its own limit when
\* one of its own limits is reached (those are checked first), with the
\* system rate limit reason otherwise; below the cap no identity is denied
\* with the system reason.
C34_ThrottleDeniesAll ==
  /\ \A s \in 0..now :
       SettledInWindow(DOMAIN settled, s, MinuteTicks)
         <= GLOBAL_LIMIT.audits_per_minute
  /\ \A u \in DOMAIN settled :
       LET dec  == can_audit(u, CostEstimate, now)
           q    == TIERS[get_user_tier(u)]
           n    == counts_at(audit_timestamps[u], now)
           own  == \/ n.hour >= q.audits_per_hour
                   \/ n.day >= q.audits_per_day
                   \/ n.month >= q.audits_per_month
                   \/ user_spending[u][MonthKey(now)] + CostEstimate
                        > q.monthly_budget_sol
           full == SettledInWindow(DOMAIN settled, now, MinuteTicks)
                     >= GLOBAL_LIMIT.audits_per_minute
       IN /\ full => ~dec.allowed
          /\ (full /\ ~own) => dec.reason = "System rate limit reached"
          /\ (full /\ own) => dec.reason # "System rate limit reached"
          /\ ~full => dec.reason # "System rate limit reached"

\* a request of an identity that has used none of its own allowance is
\* denied with the system reason, the cap being reached by the others
C34_FreshIdentityThrottled ==
  /\ req[1].pc = "done"
  /\ req[1].status = "quota_exceeded"
  /\ req[1].reason = "System rate limit reached"
  /\ req[1].user_id > 0
  /\ settled[req[1].user_id] = <<>>
  /\ SettledInWindow(DOMAIN settled, now, MinuteTicks)
       = GLOBAL_LIMIT.audits_per_minute

\* the job objects in status running
RunningJobs == {o \in 1..Len(jobs) : jobs[o].status = "running"}

\* C35: the drain loop gives status running only to a job whose status is
\* queued, and at no moment more than max_concurrent jobs are in status
\* running, for any number of queued jobs and of drain iterations.
C35_DrainDispatchesQueuedOnly ==
  /\ [](Cardinality(RunningJobs) <= max_concurrent)
  /\ [][\A o \in 1..Len(jobs) :
          (jobs'[o].status = "running" /\ jobs[o].status # "running") =>
            jobs[o].status = "queued"]_vars

\* a drain iteration that found more than max_concurrent queued jobs is in
\* its second batch with a job running
C35_SecondBatchRunning ==
  /\ drain.pc = "gather"
  /\ Len(drain.queued_jobs) > max_concurrent
  /\ drain.i >= max_concurrent
  /\ Cardinality(RunningJobs) = 1

\* the o-th job object exists and its status is one of sts
JobStatusIn(o, sts) == IF o <= Len(jobs) THEN jobs[o].status \in sts ELSE FALSE

\* C36: the status of a job only moves queued -> running -> completed or
\* queued -> running -> failed; completed and failed are final, so no job is
\* dispatched twice; a job holds a result only in status completed and an
\* error only in status failed; and a job that is running ends in completed
\* or failed.
C36_JobLifecycle ==
  /\ [](\A o \in 1..Len(jobs) :
          /\ jobs[o].status \in {"queued", "running", "completed", "failed"}
          /\ jobs[o].result # "None" => jobs[o].status = "completed"
          /\ jobs[o].error # "None" => jobs[o].status = "failed")
  /\ [][\A o \in 1..Len(jobs) :
          jobs'[o].status # jobs[o].status =>
            \/ jobs[o].status = "queued" /\ jobs'[o].status = "running"
            \/ jobs[o].status = "running"
                 /\ jobs'[o].status \in {"completed", "failed"}]_vars
  /\ \A o \in 1..MaxJobs :
       JobStatusIn(o, {"running"}) ~> JobStatusIn(o, {"completed", "failed"})

\* a dispatched job has ended: it is failed, with an error and no result
C36_JobEnded ==
  \E o \in 1..Len(jobs) :
    /\ jobs[o].status = "failed"
    /\ jobs[o].error # "None"
    /\ jobs[o].result = "None"
    /\ drain.pc = "sleep"

\* ------------------------------------------- a subscriber using up the budget
\* One Telegram user on the subscriber tier who asks for a new audit as soon
\* as the quota lets one through and otherwise waits; every service healthy.
MaxSettledBudget == 167
MaxTimeBudget == 36

UpgradeBudget == SetTierSeq(1, "subscriber")

SubmitBudget ==
  /\ \A s \in Slots : req[s].pc = "idle"
  /\ user_tiers[1] = "subscriber"
  /\ Len(settled[1]) < MaxSettledBudget
  /\ can_audit(1, CostEstimate, now).allowed
  /\ NewRequest(1, "interactive", 1, NextContract(LastContract), FALSE, NoSnap)

TickBudget ==
  /\ user_tiers[1] = "subscriber"
  /\ ~can_audit(1, CostEstimate, now).allowed
  /\ TickIdle(MaxTimeBudget)

NextBudget ==
  \/ UpgradeBudget
  \/ SubmitBudget
  \/ StageQuota(1)
  \/ StageDedup(1)
  \/ StageGPT4(1)
  \/ StageSideEffects(1, HealthyR2, HealthyNFT, HealthyPay, PlainProfiles)
  \/ StageCache(1)
  \/ StageRecord(1)
  \/ Return(1)
  \/ TickBudget

SpecBudget == Init /\ [][NextBudget]_vars

\* C37: the spend recorded for the current month of an identity never
\* exceeds the monthly budget of the identity's tier
C37_SpendWithinBudget ==
  \A u \in DOMAIN user_tiers :
    user_spending[u][MonthKey(now)] <= TIERS[user_tiers[u]].monthly_budget_sol

\* C38: every job accepted by queue_audit is still in audit_queue under its
\* own id, as the object that was accepted (contract, payment and status)
C38_AcceptedJobsStayQueued ==
  \A o \in 1..Len(jobs) :
    \E i \in 1..Len(audit_queue) :
      audit_queue[i].job_id = jobs[o].job_id /\ audit_queue[i].obj = o

\* C39: every identity's tier is one of the tiers of TIERS, so can_audit
\* always finds its limits, and a set_user_tier call with any other name
\* returns False and leaves the tier, the timestamps and the spend as they were
C39_TierAlwaysKnown ==
  /\ [](\A u \in DOMAIN user_tiers : user_tiers[u] \in DOMAIN TIERS)
  /\ [][(/\ returned' # returned
         /\ returned'.op = "set_user_tier"
         /\ returned'.value[2] \notin Tiers)
        => (/\ returned'.value[3] = FALSE
            /\ UNCHANGED <<user_tiers, audit_timestamps, user_spending>>)]_vars

\* a name that is no tier was refused for a premium identity with usage
C39_UnknownNameRefused ==
  /\ returned.op = "set_user_tier"
  /\ returned.value = <<1, "gold", FALSE>>
  /\ user_tiers[1] = "premium"
  /\ settled[1] # <<>>
  /\ user_spending[1][MonthKey(now)] > 0

\* C40: no payment id is in pending_payments and in payment_history at once,
\* and every payment of the history has status confirmed
C40_PendingOrHistory ==
  /\ DOMAIN pending_payments \cap DOMAIN payment_history = {}
  /\ \A id \in DOMAIN payment_history :
       payment_history[id].status = "confirmed"

====
